---------------------------- MODULE Spec2Model ----------------------------
(***************************************************************************)
(* The school records REST backend (teachers, courses, students, tests)   *)
(* in its three variants:                                                  *)
(*   "memory"  : src/index.js lines 1-430, arrays persisted to JSON files, *)
(*               hand-rolled incrementing ids;                             *)
(*   "counter" : src/unnamed/part_000, MongoDB with a counters collection; *)
(*   "native"  : src/index.js lines 437-1088, MongoDB with native _id.     *)
(*                                                                         *)
(* Values.  A request body is a function whose DOMAIN is the set of the    *)
(* fields the client supplied (b.f === undefined is f \notin DOMAIN b).    *)
(* String fields hold strings, "" being the falsy one.  Numeric fields and *)
(* identifiers hold integers: 0 is the falsy value, Junk (-1) is a string  *)
(* that is neither numeric nor an ObjectId (truthy), NaN (-2) is what      *)
(* Number() yields for it; the n-th ObjectId of a collection is written n. *)
(***************************************************************************)
EXTENDS Integers, Sequences, FiniteSets, TLC

\* Largest identifier handed out per entity kind.
MaxId == 2
\* Requests a database-backed server holds between two awaits when the
\* handlers are examined one by one.
MaxInflight == 1
\* Requests it holds when the interleaving of two handlers is examined.
MaxRacing == 2

Junk == -1
NaN == -2

Kinds == {"teachers", "courses", "students", "tests"}
Variants == {"memory", "counter", "native"}

VARIABLES
  variant,   \* which of the three programs is running
  db,        \* [kind -> sequence of records]: the arrays / the collections
  files,     \* memory: [kind -> sequence of records], the JSON files
  nextId,    \* memory: nextTeachersId, nextCoursesId, nextStudentsId, nextTestsId
  counters,  \* counter: the counters collection, [sequenceName -> seq]
  oids,      \* native: number of ObjectIds generated so far, per collection
  inflight,  \* counter/native: [slot -> the handler suspended at an await]
  res,       \* the outcome of the handler run that has just ended: [status,
             \* error], status 0 when it ended without sending a response;
             \* NoRes once the response has left
  route,     \* history: [method, kind] of the handler that took the last step
  issued,    \* history: identifiers given to created entities, per kind
  overlapped \* history: two requests have been in flight at the same time

vars == <<variant, db, files, nextId, counters, oids, inflight, res, route, issued, overlapped>>

Slots == 1..MaxInflight
Racers == 1..MaxRacing
AllSlots == Slots \cup Racers
Idle == [h |-> "idle"]

----------------------------------------------------------------------------
\* JavaScript helpers

TeacherFields == {"firstName", "lastName", "email", "department"}
CourseRequired == {"code", "name", "teacherId", "semester", "room"}
CourseFields == CourseRequired \cup {"schedule"}
StudentRequired == {"firstName", "lastName", "grade", "studentNumber"}
StudentFields == StudentRequired \cup {"homeroom"}
TestFields == {"studentId", "courseId", "testName", "date", "mark", "outOf", "weight"}
NumFields == {"id", "teacherId", "studentId", "courseId", "grade", "mark", "outOf", "weight"}

\* b.f !== undefined
Has(b, f) == f \in DOMAIN b
\* !b.f
Falsy(b, f) == ~Has(b, f) \/ (IF f \in NumFields THEN b[f] = 0 ELSE b[f] = "")
\* Number(v) for a JSON number or a non-numeric string (NaN)
Number(v) == IF v = Junk THEN NaN ELSE v
\* b restricted to the fields fs
Pick(b, fs) == [f \in DOMAIN b \cap fs |-> b[f]]
\* rec with every field of upd assigned
Assign(rec, upd) == [f \in DOMAIN rec \cup DOMAIN upd |-> IF f \in DOMAIN upd THEN upd[f] ELSE rec[f]]
\* Number() applied to the numeric fields nf of b
Numbered(b, nf) == [f \in DOMAIN b |-> IF f \in nf THEN Number(b[f]) ELSE b[f]]

\* array.findIndex(x => x.id === id), 1-based, 0 when absent
FindIndex(arr, id) == IF \E i \in 1..Len(arr) : arr[i].id = id
                      THEN CHOOSE i \in 1..Len(arr) : arr[i].id = id /\ \A j \in 1..(i-1) : arr[j].id # id
                      ELSE 0
\* array.some(x => x[f] === v) / Model.exists({f: v})
Some(arr, f, v) == \E i \in 1..Len(arr) : arr[i][f] = v
\* array.splice(i, 1)
Splice(arr, i) == [j \in 1..(Len(arr) - 1) |-> IF j < i THEN arr[j] ELSE arr[j + 1]]
\* array.reduce((max, t) => Math.max(max, t.id), 0)
MaxOfIds(arr) == IF Len(arr) = 0 THEN 0
                 ELSE CHOOSE m \in {arr[i].id : i \in 1..Len(arr)} \cup {0} :
                        \A i \in 1..Len(arr) : arr[i].id <= m
Ids(arr) == {arr[i].id : i \in 1..Len(arr)}

\* array.filter(x => x[f] === v) / Model.find({f: v})
Filter(arr, f, v) == SelectSeq(arr, LAMBDA x : x[f] = v)
\* the orders in which Model.find().sort(...) may return arr: every
\* arrangement in which no record comes after one it sorts Before
Sorted(arr, Before(_, _)) ==
  {s \in {[i \in 1..Len(arr) |-> arr[p[i]]] : p \in Permutations(1..Len(arr))} :
     \A i, j \in 1..Len(arr) : i < j => ~Before(s[j], s[i])}
\* sort({ id: 1 })
ById(x, y) == x.id < y.id

\* JSON null
Null == [null |-> TRUE]
\* A JavaScript number that need not be an integer is written num/den in
\* lowest terms with den >= 0: 0/0 is NaN, 1/0 Infinity, -1/0 -Infinity.
RECURSIVE GCD(_, _)
GCD(a, b) == IF b = 0 THEN a ELSE GCD(b, a % b)
Float(n, d) ==
  LET abs(x) == IF x < 0 THEN -x ELSE x
      g == GCD(abs(n), abs(d))
      sign == IF d < 0 THEN -1 ELSE 1
  IN IF g = 0 THEN [num |-> 0, den |-> 0]
     ELSE [num |-> sign * (n \div g), den |-> sign * (d \div g)]
\* the number held by a numeric field (NaN where Number() gave NaN)
ToFloat(v) == IF v = NaN THEN Float(0, 0) ELSE Float(v, 1)
\* x / y, x * y, x + y
Divide(x, y) == Float(x.num * y.den, x.den * y.num)
Times(x, y) == Float(x.num * y.num, x.den * y.den)
Plus(x, y) == Float(x.num * y.den + y.num * x.den, x.den * y.den)
\* JSON.stringify of a number: NaN and the infinities are written null
Json(x) == IF x.den = 0 THEN Null ELSE x
\* tests.map(t => (t.mark / t.outOf) * 100).reduce((a, b) => a + b, 0) / tests.length
RECURSIVE SumPercent(_)
SumPercent(tests) ==
  IF Len(tests) = 0 THEN Float(0, 1)
  ELSE Plus(SumPercent(SubSeq(tests, 1, Len(tests) - 1)),
            Times(Divide(ToFloat(tests[Len(tests)].mark), ToFloat(tests[Len(tests)].outOf)), Float(100, 1)))
\* Mean with every percentage counted weight times
RECURSIVE SumWeighted(_, _)
SumWeighted(tests, f) ==
  IF Len(tests) = 0 THEN Float(0, 1)
  ELSE LET t == tests[Len(tests)]
           x == IF f = "weight" THEN Float(1, 1) ELSE Times(Divide(ToFloat(t.mark), ToFloat(t.outOf)), Float(100, 1))
       IN Plus(SumWeighted(SubSeq(tests, 1, Len(tests) - 1), f), Times(x, ToFloat(t.weight)))
MeanWeighted(tests) == Divide(SumWeighted(tests, "percent"), SumWeighted(tests, "weight"))

Mean(tests) == Divide(SumPercent(tests), Float(Len(tests), 1))

\* the error of a 404
NotFound(k) ==
  CASE k = "teachers" -> "Teacher not found"
    [] k = "courses" -> "Course not found"
    [] k = "students" -> "Student not found"
    [] OTHER -> "Test not found"
\* the field of a test that refers to an entity of kind k
TestKey(k) == IF k = "students" THEN "studentId" ELSE "courseId"

NoRes == [status |-> 0, error |-> ""]
NoRoute == [method |-> "", kind |-> ""]
Route(method, kind) == route' = [method |-> method, kind |-> kind]
Respond(status, error) == res' = [status |-> status, error |-> error]
\* res.status(status).json(body), body an entity, a list or a summary
Reply(status, body) == res' = [status |-> status, error |-> "", body |-> body]

\* the response written by res.json() leaves the process
Sent ==
  /\ res # NoRes
  /\ res' = NoRes
  /\ route' = NoRoute
  /\ UNCHANGED <<variant, db, files, nextId, counters, oids, inflight, issued, overlapped>>

----------------------------------------------------------------------------
Init ==
  /\ variant \in Variants
  /\ db = [k \in Kinds |-> <<>>]
  /\ files = [k \in Kinds |-> <<>>]
  /\ nextId = [k \in Kinds |-> 1]
  /\ counters = [k \in Kinds |-> 0]
  /\ oids = [k \in Kinds |-> 0]
  /\ inflight = [r \in AllSlots |-> Idle]
  /\ res = NoRes
  /\ route = NoRoute
  /\ issued = [k \in Kinds |-> {}]
  /\ overlapped = FALSE

----------------------------------------------------------------------------
\* The in-memory variant (src/index.js 1-430).  Node runs each of its
\* synchronous handlers to completion: one action per handler.

\* saveJson(file, array)
SaveJson(k) == files' = [files EXCEPT ![k] = db'[k]]

MemIdle == variant = "memory" /\ res = NoRes
Mem(method, kind) == MemIdle /\ Route(method, kind)
MemFrame == UNCHANGED <<variant, counters, oids, inflight, overlapped>>
MemReject(status, error) == Respond(status, error) /\ UNCHANGED <<db, files, nextId, issued>>

\* push + save + 201 of the four POST handlers
MemCreate(k, rec) ==
  /\ nextId[k] <= MaxId
  /\ db' = [db EXCEPT ![k] = Append(@, [id |-> nextId[k]] @@ rec)]
  /\ SaveJson(k)
  /\ nextId' = [nextId EXCEPT ![k] = @ + 1]
  /\ issued' = [issued EXCEPT ![k] = @ \cup {nextId[k]}]
  /\ Reply(201, [id |-> nextId[k]] @@ rec)

\* field assignments + save + 200 of the four PUT handlers
MemUpdate(k, i, upd) ==
  /\ db' = [db EXCEPT ![k][i] = Assign(@, upd)]
  /\ SaveJson(k)
  /\ Respond(200, "")
  /\ UNCHANGED <<nextId, issued>>

\* findIndex + splice + save of the four DELETE handlers
MemDelete(k, id, notFound) ==
  /\ Mem("DELETE", k)
  /\ LET index == FindIndex(db[k], id) IN
     IF index = 0 THEN MemReject(404, notFound)
     ELSE /\ db' = [db EXCEPT ![k] = Splice(@, index)]
          /\ SaveJson(k)
          /\ Reply(200, db[k][index])
          /\ UNCHANGED <<nextId, issued>>
  /\ MemFrame

MemPostTeachers(b) ==
  /\ Mem("POST", "teachers")
  /\ IF \E f \in TeacherFields : Falsy(b, f)
     THEN MemReject(400, "Missing required fields")
     ELSE MemCreate("teachers", Pick(b, TeacherFields))
  /\ MemFrame

MemPutTeachers(id, b) ==
  /\ Mem("PUT", "teachers")
  /\ LET i == FindIndex(db.teachers, id) IN
     IF i = 0 THEN MemReject(404, "Teacher not found")
     ELSE IF \A f \in TeacherFields : Falsy(b, f)
     THEN MemReject(400, "No fields provided to update")
     ELSE MemUpdate("teachers", i, Pick(b, TeacherFields))
  /\ MemFrame

MemDeleteTeachers(id) == MemDelete("teachers", id, "Teacher not found")

MemPostCourses(b) ==
  /\ Mem("POST", "courses")
  /\ IF \E f \in CourseRequired : Falsy(b, f)
     THEN MemReject(400, "Missing required fields")
     ELSE IF FindIndex(db.teachers, Number(b.teacherId)) = 0
     THEN MemReject(400, "teacherId is invalid!")
     ELSE MemCreate("courses", Numbered(Pick(b, CourseRequired), {"teacherId"}))
  /\ MemFrame

MemPutCourses(id, b) ==
  /\ Mem("PUT", "courses")
  /\ LET i == FindIndex(db.courses, id) IN
     IF i = 0 THEN MemReject(404, "Course not found")
     ELSE IF \A f \in CourseRequired : Falsy(b, f)
     THEN MemReject(400, "No fields provided to update")
     ELSE IF Has(b, "teacherId") /\ FindIndex(db.teachers, Number(b.teacherId)) = 0
     THEN MemReject(400, "teacherId is invalid!")
     ELSE MemUpdate("courses", i, Numbered(Pick(b, CourseRequired), {"teacherId"}))
  /\ MemFrame

MemDeleteCourses(id) == MemDelete("courses", id, "Course not found")

MemPostStudents(b) ==
  /\ Mem("POST", "students")
  /\ IF \E f \in StudentRequired : Falsy(b, f)
     THEN MemReject(400, "Missing required fields")
     ELSE MemCreate("students", Pick(b, StudentRequired))
  /\ MemFrame

MemPutStudents(id, b) ==
  /\ Mem("PUT", "students")
  /\ LET i == FindIndex(db.students, id) IN
     IF i = 0 THEN MemReject(404, "Student not found")
     ELSE IF \A f \in StudentRequired : Falsy(b, f)
     THEN MemReject(400, "No fields provided to update")
     ELSE MemUpdate("students", i, Pick(b, StudentFields))
  /\ MemFrame

MemDeleteStudents(id) == MemDelete("students", id, "Student not found")

TestNumbers == {"studentId", "courseId", "mark", "outOf", "weight"}

MemPostTests(b) ==
  /\ Mem("POST", "tests")
  /\ IF \/ \E f \in {"studentId", "courseId", "testName", "date"} : Falsy(b, f)
        \/ \E f \in {"mark", "outOf", "weight"} : ~Has(b, f)
     THEN MemReject(400, "Missing required fields")
     ELSE IF ~Some(db.students, "id", Number(b.studentId))
     THEN MemReject(400, "studentId is invalid!")
     ELSE IF ~Some(db.courses, "id", Number(b.courseId))
     THEN MemReject(400, "courseId is invalid!")
     ELSE MemCreate("tests", Numbered(Pick(b, TestFields), TestNumbers))
  /\ MemFrame

\* The handler assigns test.studentId (an element of the tests array) before
\* it checks courseId, and returns on an invalid courseId without saving.
MemPutTests(id, b) ==
  /\ Mem("PUT", "tests")
  /\ LET i == FindIndex(db.tests, id) IN
     IF i = 0 THEN MemReject(404, "Test not found")
     ELSE IF /\ \A f \in {"studentId", "courseId", "testName", "date"} : Falsy(b, f)
             /\ \A f \in {"mark", "outOf", "weight"} : ~Has(b, f)
     THEN MemReject(400, "No fields provided to update")
     ELSE IF Has(b, "studentId") /\ ~Some(db.students, "id", Number(b.studentId))
     THEN MemReject(400, "studentId is invalid!")
     ELSE IF Has(b, "courseId") /\ ~Some(db.courses, "id", Number(b.courseId))
     THEN /\ db' = [db EXCEPT !.tests[i] = Assign(@, Numbered(Pick(b, {"studentId"}), TestNumbers))]
          /\ Respond(400, "courseId is invalid!")
          /\ UNCHANGED <<files, nextId, issued>>
     ELSE MemUpdate("tests", i, Numbered(Pick(b, TestFields), TestNumbers))
  /\ MemFrame

MemDeleteTests(id) == MemDelete("tests", id, "Test not found")

\* GET /teachers: the handler's only statement is commented out, it returns
\* without sending anything
MemGetTeachers ==
  /\ Mem("GET", "teachers")
  /\ MemReject(0, "no response")
  /\ MemFrame

\* GET /teachers/:id: 404 for an unknown id; for a stored teacher the
\* res.json is commented out and nothing is sent
MemGetTeachersId(id) ==
  /\ Mem("GET", "teachers/:id")
  /\ IF FindIndex(db.teachers, Number(id)) = 0 THEN MemReject(404, "Teacher not found")
     ELSE MemReject(0, "no response")
  /\ MemFrame

\* GET /courses, /students, /tests: res.json(array)
MemGetAll(k) ==
  /\ Mem("GET", k)
  /\ Reply(200, db[k])
  /\ UNCHANGED <<db, files, nextId, issued>>
  /\ MemFrame

\* GET /courses/:id, /students/:id, /tests/:id
MemGetOne(k, id) ==
  /\ Mem("GET", k \o "/:id")
  /\ LET i == FindIndex(db[k], Number(id)) IN
     IF i = 0 THEN MemReject(404, NotFound(k))
     ELSE Reply(200, db[k][i]) /\ UNCHANGED <<db, files, nextId, issued>>
  /\ MemFrame

\* GET /courses/:id/average: no guard for a course without tests
MemGetCoursesAverage(id) ==
  /\ Mem("GET", "courses/:id/average")
  /\ IF FindIndex(db.courses, Number(id)) = 0 THEN MemReject(404, "Course not found!")
     ELSE LET testCourses == Filter(db.tests, "courseId", Number(id)) IN
          /\ Reply(200, [courseId |-> Number(id), testCount |-> Len(testCourses), average |-> Mean(testCourses)])
          /\ UNCHANGED <<db, files, nextId, issued>>
  /\ MemFrame

\* The process is stopped and started again: lines 24-32 run anew.
MemRestart ==
  /\ MemIdle
  /\ db' = files
  /\ nextId' = [k \in Kinds |-> MaxOfIds(files[k]) + 1]
  /\ UNCHANGED <<variant, files, counters, oids, inflight, res, route, issued, overlapped>>

----------------------------------------------------------------------------
\* The database-backed variants.  A handler runs from one await to the next
\* without interruption; each store operation takes effect atomically.  An
\* action is one store operation together with the handler code that follows
\* it up to the next await (the first action of a handler also holds the
\* synchronous code before its first store operation).

DbFrame == UNCHANGED <<variant, files, nextId>>

\* the handler of slot r suspends at an await, to go on with step h
Await(r, h, locals) ==
  /\ inflight' = [inflight EXCEPT ![r] = [h |-> h] @@ locals]
  /\ overlapped' = (overlapped \/ \E q \in AllSlots \ {r} : inflight[q] # Idle)
  /\ UNCHANGED res

\* the handler of slot r ends: res.status(status).json(...)
Finish(r, status, error) ==
  /\ inflight' = [inflight EXCEPT ![r] = Idle]
  /\ Respond(status, error)
  /\ overlapped' = (overlapped \/ \E q \in AllSlots \ {r} : inflight[q] # Idle)

\* the handler of slot r ends: res.status(status).json(body)
FinishWith(r, status, body) ==
  /\ inflight' = [inflight EXCEPT ![r] = Idle]
  /\ Reply(status, body)
  /\ overlapped' = (overlapped \/ \E q \in AllSlots \ {r} : inflight[q] # Idle)

\* an async handler without try/catch whose awaited promise rejects.  What
\* becomes of the rejection is the framework's doing: Express 4 never hears
\* of it and no response is sent; Express 5 passes it to its default error
\* handler, which answers 500 with a page that is not JSON (no error field)
Unhandled(r) == Finish(r, 0, "unhandled rejection") \/ Finish(r, 500, "")

\* Mongoose validation of a document against its schema: a required String
\* must be non-empty, a Number must not be NaN
SchemaValid(doc) ==
  /\ \A f \in DOMAIN doc \ (NumFields \cup {"schedule", "homeroom"}) : doc[f] # ""
  /\ \A f \in DOMAIN doc \cap NumFields : doc[f] # NaN

\* the paths doc.save() writes: those assigned a value other than the loaded one
Modified(doc, upd) == [f \in {g \in DOMAIN upd : upd[g] # doc[g]} |-> upd[f]]

\* Model.create(doc) on collection k
Insert(k, doc) ==
  /\ db' = [db EXCEPT ![k] = Append(@, doc)]
  /\ issued' = [issued EXCEPT ![k] = @ \cup {doc.id}]

\* doc.save() of a loaded document of collection k: updateOne({_id}, {$set: modified paths})
SaveDoc(r, k, doc, upd) ==
  IF ~SchemaValid(Assign(doc, upd)) THEN Unhandled(r) /\ UNCHANGED db
  ELSE IF DOMAIN Modified(doc, upd) = {} THEN Finish(r, 200, "") /\ UNCHANGED db
  ELSE LET i == FindIndex(db[k], doc.id) IN
       IF i = 0 THEN Unhandled(r) /\ UNCHANGED db
       ELSE /\ db' = [db EXCEPT ![k][i] = Assign(@, Modified(doc, upd))]
            /\ Finish(r, 200, "")

\* Model.findOneAndDelete({id}) / findByIdAndDelete(id) and the response
DeleteDoc(r, k, id, notFound) ==
  LET i == FindIndex(db[k], id) IN
  IF i = 0 THEN Finish(r, 404, notFound) /\ UNCHANGED db
  ELSE db' = [db EXCEPT ![k] = Splice(@, i)] /\ FinishWith(r, 200, db[k][i])

\* value || ""
OrEmpty(b, f) == IF Falsy(b, f) THEN "" ELSE b[f]

----------------------------------------------------------------------------
\* The counter variant (src/unnamed/part_000)

CtrFrame == DbFrame /\ UNCHANGED oids
CtrStart(r, method, kind) == variant = "counter" /\ res = NoRes /\ inflight[r] = Idle /\ Route(method, kind)
CtrAt(r, h, method, kind) == variant = "counter" /\ res = NoRes /\ inflight[r].h = h /\ Route(method, kind)
CtrReject(r, status, error) == Finish(r, status, error) /\ UNCHANGED <<db, counters, issued>>
CtrAwait(r, h, locals) == Await(r, h, locals) /\ UNCHANGED <<db, counters, issued>>

\* getNextId(sequenceName): findByIdAndUpdate with $inc and upsert, atomic in the store
GetNextId(sequenceName) ==
  /\ counters[sequenceName] < MaxId
  /\ counters' = [counters EXCEPT ![sequenceName] = @ + 1]

\* POST /teachers: await getNextId, then await Teacher.create, inside try/catch
CtrPostTeachers(r, b) ==
  /\ CtrStart(r, "POST", "teachers")
  /\ IF \E f \in TeacherFields : Falsy(b, f)
     THEN CtrReject(r, 400, "Missing required fields")
     ELSE /\ GetNextId("teachers")
          /\ Await(r, "CtrPostTeachersCreate", [doc |-> [id |-> counters'.teachers] @@ Pick(b, TeacherFields)])
          /\ UNCHANGED <<db, issued>>
  /\ CtrFrame

CtrPostTeachersCreate(r) ==
  /\ CtrAt(r, "CtrPostTeachersCreate", "POST", "teachers")
  /\ IF SchemaValid(inflight[r].doc)
     THEN Insert("teachers", inflight[r].doc) /\ FinishWith(r, 201, inflight[r].doc)
     ELSE Finish(r, 500, "Server error") /\ UNCHANGED <<db, issued>>
  /\ UNCHANGED counters
  /\ CtrFrame

\* CtrPutTeachers without the "No fields provided to update" return
CtrPutTeachersUnchecked(r, id, b) ==
  /\ CtrStart(r, "PUT", "teachers")
  /\ LET i == FindIndex(db.teachers, id) IN
     IF i = 0 THEN CtrReject(r, 404, "Teacher not found")
     ELSE CtrAwait(r, "CtrPutTeachersSave", [doc |-> db.teachers[i], upd |-> Pick(b, TeacherFields)])
  /\ CtrFrame

CtrPutTeachers(r, id, b) ==
  /\ CtrStart(r, "PUT", "teachers")
  /\ IF \A f \in TeacherFields : ~Has(b, f)
     THEN CtrReject(r, 400, "No fields provided to update")
     ELSE LET i == FindIndex(db.teachers, id) IN
          IF i = 0 THEN CtrReject(r, 404, "Teacher not found")
          ELSE CtrAwait(r, "CtrPutTeachersSave", [doc |-> db.teachers[i], upd |-> Pick(b, TeacherFields)])
  /\ CtrFrame

CtrPutTeachersSave(r) ==
  /\ CtrAt(r, "CtrPutTeachersSave", "PUT", "teachers")
  /\ SaveDoc(r, "teachers", inflight[r].doc, inflight[r].upd)
  /\ UNCHANGED <<counters, issued>>
  /\ CtrFrame

\* CtrDeleteTeachers without the Course.exists({ teacherId }) return
CtrDeleteTeachersUnchecked(r, id) ==
  /\ CtrStart(r, "DELETE", "teachers")
  /\ CtrAwait(r, "CtrDeleteTeachersDelete", [id |-> id])
  /\ CtrFrame

CtrDeleteTeachers(r, id) ==
  /\ CtrStart(r, "DELETE", "teachers")
  /\ IF Some(db.courses, "teacherId", id)
     THEN CtrReject(r, 400, "Cannot delete teacher who is assigned to courses. Update/delete courses first.")
     ELSE CtrAwait(r, "CtrDeleteTeachersDelete", [id |-> id])
  /\ CtrFrame

CtrDeleteTeachersDelete(r) ==
  /\ CtrAt(r, "CtrDeleteTeachersDelete", "DELETE", "teachers")
  /\ DeleteDoc(r, "teachers", inflight[r].id, "Teacher not found")
  /\ UNCHANGED <<counters, issued>>
  /\ CtrFrame

\* CtrPostCourses with getNextId("courses") called before the teacher is
\* looked up
CtrPostCoursesEager(r, b) ==
  /\ CtrStart(r, "POST", "courses")
  /\ IF (\E f \in CourseRequired \ {"teacherId"} : Falsy(b, f)) \/ ~Has(b, "teacherId")
     THEN CtrReject(r, 400, "Missing required fields")
     ELSE IF FindIndex(db.teachers, Number(b.teacherId)) = 0
     THEN GetNextId("courses") /\ Finish(r, 400, "teacherId is invalid!") /\ UNCHANGED <<db, issued>>
     ELSE CtrAwait(r, "CtrPostCoursesGetNextId", [b |-> b])
  /\ CtrFrame

\* POST /courses: Teacher.findOne, getNextId, Course.create
CtrPostCourses(r, b) ==
  /\ CtrStart(r, "POST", "courses")
  /\ IF (\E f \in CourseRequired \ {"teacherId"} : Falsy(b, f)) \/ ~Has(b, "teacherId")
     THEN CtrReject(r, 400, "Missing required fields")
     ELSE IF FindIndex(db.teachers, Number(b.teacherId)) = 0
     THEN CtrReject(r, 400, "teacherId is invalid!")
     ELSE CtrAwait(r, "CtrPostCoursesGetNextId", [b |-> b])
  /\ CtrFrame

CtrPostCoursesGetNextId(r) ==
  /\ CtrAt(r, "CtrPostCoursesGetNextId", "POST", "courses")
  /\ GetNextId("courses")
  /\ LET b == inflight[r].b IN
     Await(r, "CtrPostCoursesCreate",
           [doc |-> [id |-> counters'.courses, schedule |-> OrEmpty(b, "schedule")]
                    @@ Numbered(Pick(b, CourseRequired), {"teacherId"})])
  /\ UNCHANGED <<db, issued>>
  /\ CtrFrame

CtrPostCoursesCreate(r) ==
  /\ CtrAt(r, "CtrPostCoursesCreate", "POST", "courses")
  /\ IF SchemaValid(inflight[r].doc)
     THEN Insert("courses", inflight[r].doc) /\ FinishWith(r, 201, inflight[r].doc)
     ELSE Unhandled(r) /\ UNCHANGED <<db, issued>>
  /\ UNCHANGED counters
  /\ CtrFrame

CtrPutCourses(r, id, b) ==
  /\ CtrStart(r, "PUT", "courses")
  /\ IF \A f \in CourseFields : ~Has(b, f)
     THEN CtrReject(r, 400, "No fields provided to update")
     ELSE LET i == FindIndex(db.courses, id) IN
          IF i = 0 THEN CtrReject(r, 404, "Course not found")
          ELSE CtrAwait(r, IF Has(b, "teacherId") THEN "CtrPutCoursesTeacher" ELSE "CtrPutCoursesSave",
                        [doc |-> db.courses[i], upd |-> Numbered(Pick(b, CourseFields), {"teacherId"})])
  /\ CtrFrame

CtrPutCoursesTeacher(r) ==
  /\ CtrAt(r, "CtrPutCoursesTeacher", "PUT", "courses")
  /\ IF FindIndex(db.teachers, inflight[r].upd.teacherId) = 0
     THEN CtrReject(r, 400, "teacherId is invalid!")
     ELSE CtrAwait(r, "CtrPutCoursesSave", [doc |-> inflight[r].doc, upd |-> inflight[r].upd])
  /\ CtrFrame

CtrPutCoursesSave(r) ==
  /\ CtrAt(r, "CtrPutCoursesSave", "PUT", "courses")
  /\ SaveDoc(r, "courses", inflight[r].doc, inflight[r].upd)
  /\ UNCHANGED <<counters, issued>>
  /\ CtrFrame

CtrDeleteCourses(r, id) ==
  /\ CtrStart(r, "DELETE", "courses")
  /\ IF Some(db.tests, "courseId", id)
     THEN CtrReject(r, 400, "Cannot delete course that has tests. Delete/update tests first.")
     ELSE CtrAwait(r, "CtrDeleteCoursesDelete", [id |-> id])
  /\ CtrFrame

CtrDeleteCoursesDelete(r) ==
  /\ CtrAt(r, "CtrDeleteCoursesDelete", "DELETE", "courses")
  /\ DeleteDoc(r, "courses", inflight[r].id, "Course not found")
  /\ UNCHANGED <<counters, issued>>
  /\ CtrFrame

CtrPostStudents(r, b) ==
  /\ CtrStart(r, "POST", "students")
  /\ IF (\E f \in StudentRequired \ {"grade"} : Falsy(b, f)) \/ ~Has(b, "grade")
     THEN CtrReject(r, 400, "Missing required fields")
     ELSE /\ GetNextId("students")
          /\ Await(r, "CtrPostStudentsCreate",
                   [doc |-> [id |-> counters'.students, homeroom |-> OrEmpty(b, "homeroom")]
                            @@ Numbered(Pick(b, StudentRequired), {"grade"})])
          /\ UNCHANGED <<db, issued>>
  /\ CtrFrame

CtrPostStudentsCreate(r) ==
  /\ CtrAt(r, "CtrPostStudentsCreate", "POST", "students")
  /\ IF SchemaValid(inflight[r].doc)
     THEN Insert("students", inflight[r].doc) /\ FinishWith(r, 201, inflight[r].doc)
     ELSE Unhandled(r) /\ UNCHANGED <<db, issued>>
  /\ UNCHANGED counters
  /\ CtrFrame

CtrPutStudents(r, id, b) ==
  /\ CtrStart(r, "PUT", "students")
  /\ IF \A f \in StudentFields : ~Has(b, f)
     THEN CtrReject(r, 400, "No fields provided to update")
     ELSE LET i == FindIndex(db.students, id) IN
          IF i = 0 THEN CtrReject(r, 404, "Student not found")
          ELSE CtrAwait(r, "CtrPutStudentsSave",
                        [doc |-> db.students[i], upd |-> Numbered(Pick(b, StudentFields), {"grade"})])
  /\ CtrFrame

CtrPutStudentsSave(r) ==
  /\ CtrAt(r, "CtrPutStudentsSave", "PUT", "students")
  /\ SaveDoc(r, "students", inflight[r].doc, inflight[r].upd)
  /\ UNCHANGED <<counters, issued>>
  /\ CtrFrame

CtrDeleteStudents(r, id) ==
  /\ CtrStart(r, "DELETE", "students")
  /\ IF Some(db.tests, "studentId", id)
     THEN CtrReject(r, 400, "Cannot delete student that has tests. Delete/update tests first.")
     ELSE CtrAwait(r, "CtrDeleteStudentsDelete", [id |-> id])
  /\ CtrFrame

CtrDeleteStudentsDelete(r) ==
  /\ CtrAt(r, "CtrDeleteStudentsDelete", "DELETE", "students")
  /\ DeleteDoc(r, "students", inflight[r].id, "Student not found")
  /\ UNCHANGED <<counters, issued>>
  /\ CtrFrame

\* POST /tests: Student.exists, Course.exists, getNextId, Test.create
CtrPostTests(r, b) ==
  /\ CtrStart(r, "POST", "tests")
  /\ IF \/ \E f \in {"testName", "date"} : Falsy(b, f)
        \/ \E f \in TestNumbers : ~Has(b, f)
     THEN CtrReject(r, 400, "Missing required fields")
     ELSE IF ~Some(db.students, "id", Number(b.studentId))
     THEN CtrReject(r, 400, "studentId is invalid!")
     ELSE CtrAwait(r, "CtrPostTestsCourse", [b |-> b])
  /\ CtrFrame

\* CtrPostTestsCourse without "if (!courseExists) return"
CtrPostTestsCourseUnchecked(r) ==
  /\ CtrAt(r, "CtrPostTestsCourse", "POST", "tests")
  /\ CtrAwait(r, "CtrPostTestsGetNextId", [b |-> inflight[r].b])
  /\ CtrFrame

CtrPostTestsCourse(r) ==
  /\ CtrAt(r, "CtrPostTestsCourse", "POST", "tests")
  /\ IF ~Some(db.courses, "id", Number(inflight[r].b.courseId))
     THEN CtrReject(r, 400, "courseId is invalid!")
     ELSE CtrAwait(r, "CtrPostTestsGetNextId", [b |-> inflight[r].b])
  /\ CtrFrame

CtrPostTestsGetNextId(r) ==
  /\ CtrAt(r, "CtrPostTestsGetNextId", "POST", "tests")
  /\ GetNextId("tests")
  /\ Await(r, "CtrPostTestsCreate",
           [doc |-> [id |-> counters'.tests] @@ Numbered(Pick(inflight[r].b, TestFields), TestNumbers)])
  /\ UNCHANGED <<db, issued>>
  /\ CtrFrame

CtrPostTestsCreate(r) ==
  /\ CtrAt(r, "CtrPostTestsCreate", "POST", "tests")
  /\ IF SchemaValid(inflight[r].doc)
     THEN Insert("tests", inflight[r].doc) /\ FinishWith(r, 201, inflight[r].doc)
     ELSE Unhandled(r) /\ UNCHANGED <<db, issued>>
  /\ UNCHANGED counters
  /\ CtrFrame

\* PUT /tests/:id: Test.findOne, then Student.exists and Course.exists for
\* the references supplied, then test.save()
CtrPutTests(r, id, b) ==
  /\ CtrStart(r, "PUT", "tests")
  /\ IF \A f \in TestFields : ~Has(b, f)
     THEN CtrReject(r, 400, "No fields provided to update")
     ELSE LET i == FindIndex(db.tests, id) IN
          IF i = 0 THEN CtrReject(r, 404, "Test not found")
          ELSE CtrAwait(r, IF Has(b, "studentId") THEN "CtrPutTestsStudent"
                           ELSE IF Has(b, "courseId") THEN "CtrPutTestsCourse"
                           ELSE "CtrPutTestsSave",
                        [doc |-> db.tests[i], upd |-> Numbered(Pick(b, TestFields), TestNumbers)])
  /\ CtrFrame

\* CtrPutTestsStudent without the "if (!exists) return" after Student.exists
CtrPutTestsStudentUnchecked(r) ==
  /\ CtrAt(r, "CtrPutTestsStudent", "PUT", "tests")
  /\ CtrAwait(r, IF Has(inflight[r].upd, "courseId") THEN "CtrPutTestsCourse" ELSE "CtrPutTestsSave",
              [doc |-> inflight[r].doc, upd |-> inflight[r].upd])
  /\ CtrFrame

CtrPutTestsStudent(r) ==
  /\ CtrAt(r, "CtrPutTestsStudent", "PUT", "tests")
  /\ IF ~Some(db.students, "id", inflight[r].upd.studentId)
     THEN CtrReject(r, 400, "studentId is invalid!")
     ELSE CtrAwait(r, IF Has(inflight[r].upd, "courseId") THEN "CtrPutTestsCourse" ELSE "CtrPutTestsSave",
                   [doc |-> inflight[r].doc, upd |-> inflight[r].upd])
  /\ CtrFrame

CtrPutTestsCourse(r) ==
  /\ CtrAt(r, "CtrPutTestsCourse", "PUT", "tests")
  /\ IF ~Some(db.courses, "id", inflight[r].upd.courseId)
     THEN CtrReject(r, 400, "courseId is invalid!")
     ELSE CtrAwait(r, "CtrPutTestsSave", [doc |-> inflight[r].doc, upd |-> inflight[r].upd])
  /\ CtrFrame

CtrPutTestsSave(r) ==
  /\ CtrAt(r, "CtrPutTestsSave", "PUT", "tests")
  /\ SaveDoc(r, "tests", inflight[r].doc, inflight[r].upd)
  /\ UNCHANGED <<counters, issued>>
  /\ CtrFrame

\* CtrDeleteTests made subject to a guard: refused while the student of the
\* test is stored
CtrDeleteTestsGuarded(r, id) ==
  /\ CtrStart(r, "DELETE", "tests")
  /\ LET i == FindIndex(db.tests, id) IN
     IF i # 0 /\ Some(db.students, "id", db.tests[i].studentId)
     THEN Finish(r, 400, "Cannot delete test of a stored student.") /\ UNCHANGED db
     ELSE DeleteDoc(r, "tests", id, "Test not found")
  /\ UNCHANGED <<counters, issued>>
  /\ CtrFrame

CtrDeleteTests(r, id) ==
  /\ CtrStart(r, "DELETE", "tests")
  /\ DeleteDoc(r, "tests", id, "Test not found")
  /\ UNCHANGED <<counters, issued>>
  /\ CtrFrame

\* GET /teachers, /courses, /students, /tests: Model.find().sort({ id: 1 })
CtrGetAll(r, k) ==
  /\ CtrStart(r, "GET", k)
  /\ \E s \in Sorted(db[k], ById) : FinishWith(r, 200, s)
  /\ UNCHANGED <<db, counters, issued>>
  /\ CtrFrame

\* GET /k/:id: Model.findOne({ id: Number(req.params.id) }), no try/catch;
\* Mongoose cannot cast NaN to the Number of the filter and the query rejects
CtrGetOne(r, k, id) ==
  /\ CtrStart(r, "GET", k \o "/:id")
  /\ LET i == FindIndex(db[k], Number(id)) IN
     IF Number(id) = NaN THEN Unhandled(r)
     ELSE IF i = 0 THEN Finish(r, 404, NotFound(k))
     ELSE FinishWith(r, 200, db[k][i])
  /\ UNCHANGED <<db, counters, issued>>
  /\ CtrFrame

\* CtrGetSub without the "if (!student) return" / "if (!course) return"
CtrGetSubUnchecked(r, k, id, what) ==
  /\ CtrStart(r, "GET", k \o "/:id/" \o what)
  /\ IF Number(id) = NaN THEN Unhandled(r) /\ UNCHANGED <<db, counters, issued>>
     ELSE CtrAwait(r, "CtrGetSubFind", [k |-> k, id |-> Number(id), what |-> what])
  /\ CtrFrame

\* GET /students/:id/tests, /courses/:id/tests, /students/:id/average,
\* /courses/:id/average (k the kind, what "tests" or "average"): the lookup
\* of the student or course
CtrGetSub(r, k, id, what) ==
  /\ CtrStart(r, "GET", k \o "/:id/" \o what)
  /\ IF Number(id) = NaN THEN Unhandled(r) /\ UNCHANGED <<db, counters, issued>>
     ELSE IF FindIndex(db[k], Number(id)) = 0 THEN CtrReject(r, 404, NotFound(k))
     ELSE CtrAwait(r, "CtrGetSubFind", [k |-> k, id |-> Number(id), what |-> what])
  /\ CtrFrame

\* ... and the Test.find({ studentId }) or Test.find({ courseId }) with the
\* code that follows it
CtrGetSubFind(r) ==
  /\ CtrAt(r, "CtrGetSubFind", "GET", inflight[r].k \o "/:id/" \o inflight[r].what)
  /\ LET key == TestKey(inflight[r].k)
         id == inflight[r].id
         found == Filter(db.tests, key, id) IN
     IF inflight[r].what = "tests" THEN \E s \in Sorted(found, ById) : FinishWith(r, 200, s)
     ELSE IF Len(found) = 0
     THEN FinishWith(r, 200, (key :> id) @@ [testCount |-> 0, average |-> Null])
     ELSE FinishWith(r, 200, (key :> id) @@ [testCount |-> Len(found), average |-> Mean(found)])
  /\ UNCHANGED <<db, counters, issued>>
  /\ CtrFrame

----------------------------------------------------------------------------
\* The native-key variant (src/index.js 437-1088)

NatFrame == DbFrame /\ UNCHANGED counters
NatStart(r, method, kind) == variant = "native" /\ res = NoRes /\ inflight[r] = Idle /\ Route(method, kind)
NatAt(r, h, method, kind) == variant = "native" /\ res = NoRes /\ inflight[r].h = h /\ Route(method, kind)
NatReject(r, status, error) == Finish(r, status, error) /\ UNCHANGED <<db, oids, issued>>
NatAwait(r, h, locals) == Await(r, h, locals) /\ UNCHANGED <<db, oids, issued>>

\* mongoose.isValidObjectId(id)
IsValidObjectId(id) == id >= 1

\* Model.create(fields): the driver generates the _id, the store inserts
NatCreate(r, k, fields) ==
  /\ oids[k] < MaxId
  /\ oids' = [oids EXCEPT ![k] = @ + 1]
  /\ Insert(k, [id |-> oids'[k]] @@ fields)
  /\ FinishWith(r, 201, [id |-> oids'[k]] @@ fields)

NatPostTeachers(r, b) ==
  /\ NatStart(r, "POST", "teachers")
  /\ IF \E f \in TeacherFields : Falsy(b, f)
     THEN NatReject(r, 400, "Missing required fields")
     ELSE IF SchemaValid(Pick(b, TeacherFields))
     THEN NatCreate(r, "teachers", Pick(b, TeacherFields))
     ELSE NatReject(r, 500, "Server error")
  /\ NatFrame

NatPutTeachers(r, id, b) ==
  /\ NatStart(r, "PUT", "teachers")
  /\ IF ~IsValidObjectId(id) THEN NatReject(r, 400, "Invalid teacher _id")
     ELSE IF \A f \in TeacherFields : ~Has(b, f)
     THEN NatReject(r, 400, "No fields provided to update")
     ELSE LET i == FindIndex(db.teachers, id) IN
          IF i = 0 THEN NatReject(r, 404, "Teacher not found")
          ELSE NatAwait(r, "NatPutTeachersSave", [doc |-> db.teachers[i], upd |-> Pick(b, TeacherFields)])
  /\ NatFrame

NatPutTeachersSave(r) ==
  /\ NatAt(r, "NatPutTeachersSave", "PUT", "teachers")
  /\ SaveDoc(r, "teachers", inflight[r].doc, inflight[r].upd)
  /\ UNCHANGED <<oids, issued>>
  /\ NatFrame

NatDeleteTeachers(r, id) ==
  /\ NatStart(r, "DELETE", "teachers")
  /\ IF ~IsValidObjectId(id) THEN NatReject(r, 400, "Invalid teacher _id")
     ELSE IF Some(db.courses, "teacherId", id)
     THEN NatReject(r, 400, "Cannot delete teacher who is assigned to courses. Update/delete courses first.")
     ELSE NatAwait(r, "NatDeleteTeachersDelete", [id |-> id])
  /\ NatFrame

NatDeleteTeachersDelete(r) ==
  /\ NatAt(r, "NatDeleteTeachersDelete", "DELETE", "teachers")
  /\ DeleteDoc(r, "teachers", inflight[r].id, "Teacher not found")
  /\ UNCHANGED <<oids, issued>>
  /\ NatFrame

NatPostCourses(r, b) ==
  /\ NatStart(r, "POST", "courses")
  /\ IF \E f \in CourseRequired : Falsy(b, f)
     THEN NatReject(r, 400, "Missing required fields")
     ELSE IF ~IsValidObjectId(b.teacherId)
     THEN NatReject(r, 400, "Invalid teacherId")
     ELSE IF ~Some(db.teachers, "id", b.teacherId)
     THEN NatReject(r, 400, "teacherId does not exist")
     ELSE NatAwait(r, "NatPostCoursesCreate",
                   [doc |-> [schedule |-> OrEmpty(b, "schedule")] @@ Pick(b, CourseRequired)])
  /\ NatFrame

NatPostCoursesCreate(r) ==
  /\ NatAt(r, "NatPostCoursesCreate", "POST", "courses")
  /\ IF SchemaValid(inflight[r].doc)
     THEN NatCreate(r, "courses", inflight[r].doc)
     ELSE Unhandled(r) /\ UNCHANGED <<db, oids, issued>>
  /\ NatFrame

NatPutCourses(r, id, b) ==
  /\ NatStart(r, "PUT", "courses")
  /\ IF ~IsValidObjectId(id) THEN NatReject(r, 400, "Invalid course _id")
     ELSE IF \A f \in CourseFields : ~Has(b, f)
     THEN NatReject(r, 400, "No fields provided to update")
     ELSE LET i == FindIndex(db.courses, id) IN
          IF i = 0 THEN NatReject(r, 404, "Course not found")
          ELSE IF Has(b, "teacherId") /\ ~IsValidObjectId(b.teacherId)
          THEN NatReject(r, 400, "Invalid teacherId")
          ELSE NatAwait(r, IF Has(b, "teacherId") THEN "NatPutCoursesTeacher" ELSE "NatPutCoursesSave",
                        [doc |-> db.courses[i], upd |-> Pick(b, CourseFields)])
  /\ NatFrame

NatPutCoursesTeacher(r) ==
  /\ NatAt(r, "NatPutCoursesTeacher", "PUT", "courses")
  /\ IF ~Some(db.teachers, "id", inflight[r].upd.teacherId)
     THEN NatReject(r, 400, "teacherId does not exist")
     ELSE NatAwait(r, "NatPutCoursesSave", [doc |-> inflight[r].doc, upd |-> inflight[r].upd])
  /\ NatFrame

NatPutCoursesSave(r) ==
  /\ NatAt(r, "NatPutCoursesSave", "PUT", "courses")
  /\ SaveDoc(r, "courses", inflight[r].doc, inflight[r].upd)
  /\ UNCHANGED <<oids, issued>>
  /\ NatFrame

NatDeleteCourses(r, id) ==
  /\ NatStart(r, "DELETE", "courses")
  /\ IF ~IsValidObjectId(id) THEN NatReject(r, 400, "Invalid course _id")
     ELSE IF Some(db.tests, "courseId", id)
     THEN NatReject(r, 400, "Cannot delete course that has tests. Delete/update tests first.")
     ELSE NatAwait(r, "NatDeleteCoursesDelete", [id |-> id])
  /\ NatFrame

NatDeleteCoursesDelete(r) ==
  /\ NatAt(r, "NatDeleteCoursesDelete", "DELETE", "courses")
  /\ DeleteDoc(r, "courses", inflight[r].id, "Course not found")
  /\ UNCHANGED <<oids, issued>>
  /\ NatFrame

NatPostStudents(r, b) ==
  /\ NatStart(r, "POST", "students")
  /\ LET doc == [homeroom |-> OrEmpty(b, "homeroom")] @@ Numbered(Pick(b, StudentRequired), {"grade"}) IN
     IF (\E f \in StudentRequired \ {"grade"} : Falsy(b, f)) \/ ~Has(b, "grade")
     THEN NatReject(r, 400, "Missing required fields")
     ELSE IF SchemaValid(doc)
     THEN NatCreate(r, "students", doc)
     ELSE Unhandled(r) /\ UNCHANGED <<db, oids, issued>>
  /\ NatFrame

NatPutStudents(r, id, b) ==
  /\ NatStart(r, "PUT", "students")
  /\ IF ~IsValidObjectId(id) THEN NatReject(r, 400, "Invalid student _id")
     ELSE IF \A f \in StudentFields : ~Has(b, f)
     THEN NatReject(r, 400, "No fields provided to update")
     ELSE LET i == FindIndex(db.students, id) IN
          IF i = 0 THEN NatReject(r, 404, "Student not found")
          ELSE NatAwait(r, "NatPutStudentsSave",
                        [doc |-> db.students[i], upd |-> Numbered(Pick(b, StudentFields), {"grade"})])
  /\ NatFrame

NatPutStudentsSave(r) ==
  /\ NatAt(r, "NatPutStudentsSave", "PUT", "students")
  /\ SaveDoc(r, "students", inflight[r].doc, inflight[r].upd)
  /\ UNCHANGED <<oids, issued>>
  /\ NatFrame

NatDeleteStudents(r, id) ==
  /\ NatStart(r, "DELETE", "students")
  /\ IF ~IsValidObjectId(id) THEN NatReject(r, 400, "Invalid student _id")
     ELSE IF Some(db.tests, "studentId", id)
     THEN NatReject(r, 400, "Cannot delete student that has tests. Delete/update tests first.")
     ELSE NatAwait(r, "NatDeleteStudentsDelete", [id |-> id])
  /\ NatFrame

NatDeleteStudentsDelete(r) ==
  /\ NatAt(r, "NatDeleteStudentsDelete", "DELETE", "students")
  /\ DeleteDoc(r, "students", inflight[r].id, "Student not found")
  /\ UNCHANGED <<oids, issued>>
  /\ NatFrame

TestMarks == {"mark", "outOf", "weight"}

\* POST /tests: the two existence queries are issued together (Promise.all)
\* and the store answers them in either order
NatPostTests(r, b) ==
  /\ NatStart(r, "POST", "tests")
  /\ IF \/ \E f \in {"studentId", "courseId", "testName", "date"} : Falsy(b, f)
        \/ \E f \in TestMarks : ~Has(b, f)
     THEN NatReject(r, 400, "Missing required fields")
     ELSE IF ~IsValidObjectId(b.studentId) \/ ~IsValidObjectId(b.courseId)
     THEN NatReject(r, 400, "Invalid studentId or courseId")
     ELSE NatAwait(r, "NatPostTestsExists", [b |-> b, got |-> [f \in {} |-> FALSE]])
  /\ NatFrame

\* the code after the Promise.all, run once both answers are there
NatPostTestsChecks(r, b, got) ==
  IF DOMAIN got # {"studentExists", "courseExists"}
  THEN NatAwait(r, "NatPostTestsExists", [b |-> b, got |-> got])
  ELSE IF ~got.studentExists THEN NatReject(r, 400, "studentId does not exist")
  ELSE IF ~got.courseExists THEN NatReject(r, 400, "courseId does not exist")
  ELSE NatAwait(r, "NatPostTestsCreate", [doc |-> Numbered(Pick(b, TestFields), TestMarks)])

NatPostTestsStudentExists(r) ==
  /\ NatAt(r, "NatPostTestsExists", "POST", "tests")
  /\ "studentExists" \notin DOMAIN inflight[r].got
  /\ NatPostTestsChecks(r, inflight[r].b,
       [studentExists |-> Some(db.students, "id", inflight[r].b.studentId)] @@ inflight[r].got)
  /\ NatFrame

NatPostTestsCourseExists(r) ==
  /\ NatAt(r, "NatPostTestsExists", "POST", "tests")
  /\ "courseExists" \notin DOMAIN inflight[r].got
  /\ NatPostTestsChecks(r, inflight[r].b,
       [courseExists |-> Some(db.courses, "id", inflight[r].b.courseId)] @@ inflight[r].got)
  /\ NatFrame

NatPostTestsCreate(r) ==
  /\ NatAt(r, "NatPostTestsCreate", "POST", "tests")
  /\ IF SchemaValid(inflight[r].doc)
     THEN NatCreate(r, "tests", inflight[r].doc)
     ELSE Unhandled(r) /\ UNCHANGED <<db, oids, issued>>
  /\ NatFrame

\* PUT /tests/:id, the part from "if (courseId !== undefined)" on
NatPutTestsCourseId(r, doc, upd) ==
  IF ~Has(upd, "courseId") THEN NatAwait(r, "NatPutTestsSave", [doc |-> doc, upd |-> upd])
  ELSE IF ~IsValidObjectId(upd.courseId) THEN NatReject(r, 400, "Invalid courseId")
  ELSE NatAwait(r, "NatPutTestsCourse", [doc |-> doc, upd |-> upd])

NatPutTests(r, id, b) ==
  /\ NatStart(r, "PUT", "tests")
  /\ IF ~IsValidObjectId(id) THEN NatReject(r, 400, "Invalid test _id")
     ELSE IF \A f \in TestFields : ~Has(b, f)
     THEN NatReject(r, 400, "No fields provided to update")
     ELSE LET i == FindIndex(db.tests, id)
              upd == Numbered(Pick(b, TestFields), TestMarks) IN
          IF i = 0 THEN NatReject(r, 404, "Test not found")
          ELSE IF ~Has(b, "studentId") THEN NatPutTestsCourseId(r, db.tests[i], upd)
          ELSE IF ~IsValidObjectId(b.studentId) THEN NatReject(r, 400, "Invalid studentId")
          ELSE NatAwait(r, "NatPutTestsStudent", [doc |-> db.tests[i], upd |-> upd])
  /\ NatFrame

NatPutTestsStudent(r) ==
  /\ NatAt(r, "NatPutTestsStudent", "PUT", "tests")
  /\ IF ~Some(db.students, "id", inflight[r].upd.studentId)
     THEN NatReject(r, 400, "studentId does not exist")
     ELSE NatPutTestsCourseId(r, inflight[r].doc, inflight[r].upd)
  /\ NatFrame

NatPutTestsCourse(r) ==
  /\ NatAt(r, "NatPutTestsCourse", "PUT", "tests")
  /\ IF ~Some(db.courses, "id", inflight[r].upd.courseId)
     THEN NatReject(r, 400, "courseId does not exist")
     ELSE NatAwait(r, "NatPutTestsSave", [doc |-> inflight[r].doc, upd |-> inflight[r].upd])
  /\ NatFrame

NatPutTestsSave(r) ==
  /\ NatAt(r, "NatPutTestsSave", "PUT", "tests")
  /\ SaveDoc(r, "tests", inflight[r].doc, inflight[r].upd)
  /\ UNCHANGED <<oids, issued>>
  /\ NatFrame

\* NatDeleteTests without the requireObjectId return
NatDeleteTestsUnchecked(r, id) ==
  /\ NatStart(r, "DELETE", "tests")
  /\ DeleteDoc(r, "tests", id, "Test not found") /\ UNCHANGED <<oids, issued>>
  /\ NatFrame

NatDeleteTests(r, id) ==
  /\ NatStart(r, "DELETE", "tests")
  /\ IF ~IsValidObjectId(id) THEN NatReject(r, 400, "Invalid test _id")
     ELSE DeleteDoc(r, "tests", id, "Test not found") /\ UNCHANGED <<oids, issued>>
  /\ NatFrame

\* The strings the requests use, in the order the store sorts strings
Alphabet == <<"", "a", "b", "c", "d", "e", "h", "l", "m", "n", "r", "s", "t", "x">>
Ord(str) == CHOOSE i \in 1..Len(Alphabet) : Alphabet[i] = str
\* sort({ lastName: 1, firstName: 1 }), sort({ code: 1 }), sort({ createdAt: -1 })
\* (ObjectIds are numbered in the order of creation)
ByName(x, y) ==
  \/ Ord(x.lastName) < Ord(y.lastName)
  \/ x.lastName = y.lastName /\ Ord(x.firstName) < Ord(y.firstName)
ByCode(x, y) == Ord(x.code) < Ord(y.code)
ByCreatedAt(x, y) == y.id < x.id
NatSorted(k, arr) ==
  CASE k \in {"teachers", "students"} -> Sorted(arr, ByName)
    [] k = "courses" -> Sorted(arr, ByCode)
    [] OTHER -> Sorted(arr, ByCreatedAt)

\* requireObjectId's error for a path of kind k
InvalidId(k) ==
  CASE k = "teachers" -> "Invalid teacher _id"
    [] k = "courses" -> "Invalid course _id"
    [] k = "students" -> "Invalid student _id"
    [] OTHER -> "Invalid test _id"

\* parsePopulateParam(populateStr).  The query parameter is written as the
\* sequence of its pieces between commas, <<>> when it is absent.
Trim(str) == CASE str = " course" -> "course" [] str = " " -> "" [] OTHER -> str
ParsePopulateParam(populateStr) == {Trim(populateStr[i]) : i \in 1..Len(populateStr)} \ {""}
\* the tokens the GET routes of kind k test with pop.has, and those the
\* /k/:id/tests routes test
Honoured(k) ==
  CASE k = "courses" -> {"teacher"}
    [] k = "tests" -> {"student", "course"}
    [] OTHER -> {}
HonouredSub(k, what) ==
  IF what # "tests" THEN {} ELSE IF k = "students" THEN {"course"} ELSE {"student"}
\* the select of the populate call for a token
Select(token) ==
  CASE token = "teacher" -> TeacherFields
    [] token = "student" -> StudentFields
    [] OTHER -> CourseFields
\* query.populate({ path, select }) for each of tokens, on one document:
\* the reference at the path gives way to the selected fields of the entity
\* it identifies, to null when it identifies none
Populate(doc, tokens) ==
  [f \in DOMAIN doc |->
     IF \A t \in tokens : f # t \o "Id" THEN doc[f]
     ELSE LET t == CHOOSE t \in tokens : f = t \o "Id"
              i == FindIndex(db[t \o "s"], doc[f]) IN
          IF i = 0 THEN Null ELSE [id |-> doc[f]] @@ Pick(db[t \o "s"][i], Select(t))]

\* a GET handler starts; route.populated: the paths its query populates
NatGet(r, path, tokens) ==
  /\ variant = "native" /\ res = NoRes
  /\ route' = [method |-> "GET", kind |-> path, populated |-> {t \o "Id" : t \in tokens}]

\* GET /teachers, /courses, /students, /tests
NatGetAll(r, k, populateStr) ==
  LET tokens == ParsePopulateParam(populateStr) \cap Honoured(k) IN
  /\ inflight[r] = Idle
  /\ NatGet(r, k, tokens)
  /\ \E s \in NatSorted(k, db[k]) : FinishWith(r, 200, [i \in 1..Len(s) |-> Populate(s[i], tokens)])
  /\ UNCHANGED <<db, oids, issued>>
  /\ NatFrame

\* GET /k/:id
NatGetOne(r, k, id, populateStr) ==
  LET tokens == ParsePopulateParam(populateStr) \cap Honoured(k)
      i == FindIndex(db[k], id) IN
  /\ inflight[r] = Idle
  /\ NatGet(r, k \o "/:id", tokens)
  /\ IF ~IsValidObjectId(id) THEN Finish(r, 400, InvalidId(k))
     ELSE IF i = 0 THEN Finish(r, 404, NotFound(k))
     ELSE FinishWith(r, 200, Populate(db[k][i], tokens))
  /\ UNCHANGED <<db, oids, issued>>
  /\ NatFrame

\* GET /students/:id/tests, /courses/:id/tests, /students/:id/average,
\* /courses/:id/average: the lookup of the student or course
NatGetSub(r, k, id, what, populateStr) ==
  LET tokens == ParsePopulateParam(populateStr) \cap HonouredSub(k, what) IN
  /\ inflight[r] = Idle
  /\ NatGet(r, k \o "/:id/" \o what, tokens)
  /\ IF ~IsValidObjectId(id) THEN NatReject(r, 400, InvalidId(k))
     ELSE IF FindIndex(db[k], id) = 0 THEN NatReject(r, 404, NotFound(k))
     ELSE NatAwait(r, "NatGetSubFind", [k |-> k, id |-> id, what |-> what, tokens |-> tokens])
  /\ NatFrame

\* ... and the Test.find with the code that follows it
NatGetSubFind(r) ==
  /\ inflight[r].h = "NatGetSubFind"
  /\ NatGet(r, inflight[r].k \o "/:id/" \o inflight[r].what, inflight[r].tokens)
  /\ LET key == TestKey(inflight[r].k)
         id == inflight[r].id
         found == Filter(db.tests, key, id) IN
     IF inflight[r].what = "tests"
     THEN \E s \in Sorted(found, ByCreatedAt) :
            FinishWith(r, 200, [i \in 1..Len(s) |-> Populate(s[i], inflight[r].tokens)])
     ELSE IF Len(found) = 0
     THEN FinishWith(r, 200, (key :> id) @@ [testCount |-> 0, average |-> Null])
     ELSE FinishWith(r, 200, (key :> id) @@ [testCount |-> Len(found), average |-> Mean(found)])
  /\ UNCHANGED <<db, oids, issued>>
  /\ NatFrame

----------------------------------------------------------------------------
\* The requests the model sends

EmptyBody == [f \in {} |-> ""]
\* a body whose only field no handler reads
Unread == [note |-> "x"]
PathIds == 1..MaxId
RefIds == 0..MaxId \cup {Junk}

FullTeacher(v) == [firstName |-> v, lastName |-> "l", email |-> "e", department |-> "d"]
TeacherBodies == {FullTeacher("a"), [firstName |-> "b"], [firstName |-> ""], EmptyBody, Unread}

FullCourse(t) == [code |-> "c", name |-> "n", teacherId |-> t, semester |-> "s", room |-> "r"]
CourseBodies == {FullCourse(t) : t \in RefIds} \cup {[teacherId |-> t] : t \in RefIds}
                \cup {[teacherId |-> t, code |-> "c"] : t \in {0, MaxId}}
                \cup {[schedule |-> "m"], EmptyBody, Unread}

FullStudent(g) == [firstName |-> "a", lastName |-> "l", grade |-> g, studentNumber |-> "s"]
StudentBodies == {FullStudent(9), FullStudent(Junk), [homeroom |-> "h"], EmptyBody, Unread}

FullTest(s, c, m) == [studentId |-> s, courseId |-> c, testName |-> "t", date |-> "d",
                      mark |-> m, outOf |-> 10, weight |-> 1]
TestBodies == {FullTest(s, c, 8) : s \in RefIds, c \in RefIds}
              \cup {[studentId |-> s, courseId |-> c] : s \in {MaxId, Junk}, c \in {MaxId, Junk}}
              \cup {FullTest(1, 1, Junk), [studentId |-> MaxId], [mark |-> 9], EmptyBody, Unread}

MemTC ==
  \/ \E b \in TeacherBodies : MemPostTeachers(b)
  \/ \E id \in PathIds, b \in TeacherBodies : MemPutTeachers(id, b)
  \/ \E id \in PathIds : MemDeleteTeachers(id)
  \/ \E b \in CourseBodies : MemPostCourses(b)
  \/ \E id \in PathIds, b \in CourseBodies : MemPutCourses(id, b)
  \/ \E id \in PathIds : MemDeleteCourses(id)
  \/ MemRestart

MemST ==
  \/ \E b \in StudentBodies : MemPostStudents(b)
  \/ \E id \in PathIds, b \in StudentBodies : MemPutStudents(id, b)
  \/ \E id \in PathIds : MemDeleteStudents(id)
  \/ \E b \in TestBodies : MemPostTests(b)
  \/ \E id \in PathIds, b \in TestBodies : MemPutTests(id, b)
  \/ \E id \in PathIds : MemDeleteTests(id)
  \/ \E id \in PathIds : MemDeleteCourses(id)
  \/ MemRestart

CtrTC(r) ==
  \/ \E b \in TeacherBodies : CtrPostTeachers(r, b)
  \/ CtrPostTeachersCreate(r)
  \/ \E id \in PathIds, b \in TeacherBodies : CtrPutTeachers(r, id, b)
  \/ CtrPutTeachersSave(r)
  \/ \E id \in PathIds : CtrDeleteTeachers(r, id)
  \/ CtrDeleteTeachersDelete(r)
  \/ \E b \in CourseBodies : CtrPostCourses(r, b)
  \/ CtrPostCoursesGetNextId(r)
  \/ CtrPostCoursesCreate(r)
  \/ \E id \in PathIds, b \in CourseBodies : CtrPutCourses(r, id, b)
  \/ CtrPutCoursesTeacher(r)
  \/ CtrPutCoursesSave(r)
  \/ \E id \in PathIds : CtrDeleteCourses(r, id)
  \/ CtrDeleteCoursesDelete(r)

CtrST(r) ==
  \/ \E b \in StudentBodies : CtrPostStudents(r, b)
  \/ CtrPostStudentsCreate(r)
  \/ \E id \in PathIds, b \in StudentBodies : CtrPutStudents(r, id, b)
  \/ CtrPutStudentsSave(r)
  \/ \E id \in PathIds : CtrDeleteStudents(r, id)
  \/ CtrDeleteStudentsDelete(r)
  \/ \E b \in TestBodies : CtrPostTests(r, b)
  \/ CtrPostTestsCourse(r)
  \/ CtrPostTestsGetNextId(r)
  \/ CtrPostTestsCreate(r)
  \/ \E id \in PathIds, b \in TestBodies : CtrPutTests(r, id, b)
  \/ CtrPutTestsStudent(r)
  \/ CtrPutTestsCourse(r)
  \/ CtrPutTestsSave(r)
  \/ \E id \in PathIds : CtrDeleteTests(r, id)
  \/ \E id \in PathIds : CtrDeleteCourses(r, id)
  \/ CtrDeleteCoursesDelete(r)

NatTC(r) ==
  \/ \E b \in TeacherBodies : NatPostTeachers(r, b)
  \/ \E id \in PathIds \cup {Junk}, b \in TeacherBodies : NatPutTeachers(r, id, b)
  \/ NatPutTeachersSave(r)
  \/ \E id \in PathIds \cup {Junk} : NatDeleteTeachers(r, id)
  \/ NatDeleteTeachersDelete(r)
  \/ \E b \in CourseBodies : NatPostCourses(r, b)
  \/ NatPostCoursesCreate(r)
  \/ \E id \in PathIds \cup {Junk}, b \in CourseBodies : NatPutCourses(r, id, b)
  \/ NatPutCoursesTeacher(r)
  \/ NatPutCoursesSave(r)
  \/ \E id \in PathIds \cup {Junk} : NatDeleteCourses(r, id)
  \/ NatDeleteCoursesDelete(r)

NatST(r) ==
  \/ \E b \in StudentBodies : NatPostStudents(r, b)
  \/ \E id \in PathIds \cup {Junk}, b \in StudentBodies : NatPutStudents(r, id, b)
  \/ NatPutStudentsSave(r)
  \/ \E id \in PathIds \cup {Junk} : NatDeleteStudents(r, id)
  \/ NatDeleteStudentsDelete(r)
  \/ \E b \in TestBodies : NatPostTests(r, b)
  \/ NatPostTestsStudentExists(r)
  \/ NatPostTestsCourseExists(r)
  \/ NatPostTestsCreate(r)
  \/ \E id \in PathIds \cup {Junk}, b \in TestBodies : NatPutTests(r, id, b)
  \/ NatPutTestsStudent(r)
  \/ NatPutTestsCourse(r)
  \/ NatPutTestsSave(r)
  \/ \E id \in PathIds \cup {Junk} : NatDeleteTests(r, id)
  \/ \E id \in PathIds \cup {Junk} : NatDeleteCourses(r, id)
  \/ NatDeleteCoursesDelete(r)

\* Teachers and courses, from an empty store
NextTC == MemTC \/ (\E r \in Slots : CtrTC(r)) \/ (\E r \in Slots : NatTC(r)) \/ Sent

SpecTC == Init /\ [][NextTC]_vars

\* The record a POST handler of variant v stores for body b under identifier id
StoredTeacher(id, b) == [id |-> id] @@ Pick(b, TeacherFields)
StoredCourse(v, id, b) ==
  IF v = "memory" THEN [id |-> id] @@ Numbered(Pick(b, CourseRequired), {"teacherId"})
  ELSE [id |-> id, schedule |-> OrEmpty(b, "schedule")] @@ Numbered(Pick(b, CourseRequired), {"teacherId"})
StoredStudent(v, id, b) ==
  IF v = "memory" THEN [id |-> id] @@ Pick(b, StudentRequired)
  ELSE [id |-> id, homeroom |-> OrEmpty(b, "homeroom")] @@ Numbered(Pick(b, StudentRequired), {"grade"})
StoredTest(v, id, b) ==
  [id |-> id] @@ Numbered(Pick(b, TestFields), IF v = "native" THEN TestMarks ELSE TestNumbers)

\* The store after one successful POST for each kind of ks, in the order
\* teachers, courses, students, tests
Created(ks) ==
  /\ variant \in Variants
  /\ db = [k \in Kinds |->
            IF k \notin ks THEN <<>>
            ELSE IF k = "teachers" THEN <<StoredTeacher(1, FullTeacher("a"))>>
            ELSE IF k = "courses" THEN <<StoredCourse(variant, 1, FullCourse(1))>>
            ELSE IF k = "students" THEN <<StoredStudent(variant, 1, FullStudent(9))>>
            ELSE <<StoredTest(variant, 1, FullTest(1, 1, 8))>>]
  /\ files = IF variant = "memory" THEN db ELSE [k \in Kinds |-> <<>>]
  /\ nextId = [k \in Kinds |-> IF variant = "memory" /\ k \in ks THEN 2 ELSE 1]
  /\ counters = [k \in Kinds |-> IF variant = "counter" /\ k \in ks THEN 1 ELSE 0]
  /\ oids = [k \in Kinds |-> IF variant = "native" /\ k \in ks THEN 1 ELSE 0]
  /\ inflight = [r \in AllSlots |-> Idle]
  /\ res = NoRes
  /\ route = NoRoute
  /\ issued = [k \in Kinds |-> IF k \in ks THEN {1} ELSE {}]
  /\ overlapped = FALSE

\* Students and tests, in a store that holds a teacher and a course
InitST == Created({"teachers", "courses"})
NextST == MemST \/ (\E r \in Slots : CtrST(r)) \/ (\E r \in Slots : NatST(r)) \/ Sent

SpecST == InitST /\ [][NextST]_vars

\* The PUT handlers, in a store that holds one record of every kind
InitPut == Created(Kinds)
MemPut ==
  \/ \E id \in PathIds, b \in TeacherBodies : MemPutTeachers(id, b)
  \/ \E id \in PathIds, b \in CourseBodies : MemPutCourses(id, b)
  \/ \E id \in PathIds, b \in StudentBodies : MemPutStudents(id, b)
  \/ \E id \in PathIds, b \in TestBodies : MemPutTests(id, b)
CtrPut(r) ==
  \/ \E id \in PathIds, b \in TeacherBodies : CtrPutTeachers(r, id, b)
  \/ CtrPutTeachersSave(r)
  \/ \E id \in PathIds, b \in CourseBodies : CtrPutCourses(r, id, b)
  \/ CtrPutCoursesTeacher(r)
  \/ CtrPutCoursesSave(r)
  \/ \E id \in PathIds, b \in StudentBodies : CtrPutStudents(r, id, b)
  \/ CtrPutStudentsSave(r)
  \/ \E id \in PathIds, b \in TestBodies : CtrPutTests(r, id, b)
  \/ CtrPutTestsStudent(r)
  \/ CtrPutTestsCourse(r)
  \/ CtrPutTestsSave(r)
NatPut(r) ==
  \/ \E id \in PathIds \cup {Junk}, b \in TeacherBodies : NatPutTeachers(r, id, b)
  \/ NatPutTeachersSave(r)
  \/ \E id \in PathIds \cup {Junk}, b \in CourseBodies : NatPutCourses(r, id, b)
  \/ NatPutCoursesTeacher(r)
  \/ NatPutCoursesSave(r)
  \/ \E id \in PathIds \cup {Junk}, b \in StudentBodies : NatPutStudents(r, id, b)
  \/ NatPutStudentsSave(r)
  \/ \E id \in PathIds \cup {Junk}, b \in TestBodies : NatPutTests(r, id, b)
  \/ NatPutTestsStudent(r)
  \/ NatPutTestsCourse(r)
  \/ NatPutTestsSave(r)
NextPut == MemPut \/ (\E r \in Slots : CtrPut(r)) \/ (\E r \in Slots : NatPut(r)) \/ Sent

SpecPut == InitPut /\ [][NextPut]_vars

\* The counter variant: creations whose store operations interleave
InitCreate == Init /\ variant = "counter"
NextCreate ==
  \/ \E r \in Racers :
       \/ \E b \in TeacherBodies : CtrPostTeachers(r, b)
       \/ CtrPostTeachersCreate(r)
       \/ \E b \in StudentBodies : CtrPostStudents(r, b)
       \/ CtrPostStudentsCreate(r)
  \/ Sent

SpecCreate == InitCreate /\ [][NextCreate]_vars

\* The database-backed variants: a teacher's deletion racing a course's creation
InitRace == Init /\ variant # "memory"
NextRace ==
  \/ \E r \in Racers :
       \/ CtrPostTeachers(r, FullTeacher("a"))
       \/ CtrPostTeachersCreate(r)
       \/ \E id \in PathIds : CtrDeleteTeachers(r, id)
       \/ CtrDeleteTeachersDelete(r)
       \/ \E t \in PathIds : CtrPostCourses(r, FullCourse(t))
       \/ CtrPostCoursesGetNextId(r)
       \/ CtrPostCoursesCreate(r)
       \/ NatPostTeachers(r, FullTeacher("a"))
       \/ \E id \in PathIds : NatDeleteTeachers(r, id)
       \/ NatDeleteTeachersDelete(r)
       \/ \E t \in PathIds : NatPostCourses(r, FullCourse(t))
       \/ NatPostCoursesCreate(r)
  \/ Sent

SpecRace == InitRace /\ [][NextRace]_vars

\* The GET routes, with the creations and the deletions of tests that vary
\* what they read, in a store that holds one record of every kind; natively
\* also every route with a malformed identifier in its path
GetIds == PathIds \cup {Junk}
PopulateStrs == {<<>>, <<"teacher">>, <<"student">>, <<"course">>, <<"student", " course">>}
ReadTests == {FullTest(1, 1, 8), [FullTest(1, 1, 10) EXCEPT !.weight = 3]}
Parents == {"students", "courses"}
Subs == {"tests", "average"}

InitRead == Created(Kinds)
MemRead ==
  \/ MemGetTeachers
  \/ \E id \in GetIds : MemGetTeachersId(id)
  \/ \E k \in Kinds \ {"teachers"} : MemGetAll(k)
  \/ \E k \in Kinds \ {"teachers"}, id \in GetIds : MemGetOne(k, id)
  \/ \E id \in GetIds : MemGetCoursesAverage(id)
  \/ MemPostTeachers(FullTeacher("b"))
  \/ MemPostCourses(FullCourse(1))
  \/ MemPostStudents(FullStudent(9))
  \/ \E b \in ReadTests : MemPostTests(b)
  \/ \E id \in PathIds : MemDeleteTests(id)
CtrRead(r) ==
  \/ \E k \in Kinds : CtrGetAll(r, k)
  \/ \E k \in Kinds, id \in GetIds : CtrGetOne(r, k, id)
  \/ \E k \in Parents, id \in GetIds, what \in Subs : CtrGetSub(r, k, id, what)
  \/ CtrGetSubFind(r)
  \/ CtrPostTeachers(r, FullTeacher("b"))
  \/ CtrPostTeachersCreate(r)
  \/ CtrPostCourses(r, FullCourse(1))
  \/ CtrPostCoursesGetNextId(r)
  \/ CtrPostCoursesCreate(r)
  \/ CtrPostStudents(r, FullStudent(9))
  \/ CtrPostStudentsCreate(r)
  \/ \E b \in ReadTests : CtrPostTests(r, b)
  \/ CtrPostTestsCourse(r)
  \/ CtrPostTestsGetNextId(r)
  \/ CtrPostTestsCreate(r)
  \/ \E id \in PathIds : CtrDeleteTests(r, id)
NatRead(r) ==
  \/ \E k \in Kinds, p \in PopulateStrs : NatGetAll(r, k, p)
  \/ \E k \in Kinds, id \in GetIds, p \in PopulateStrs : NatGetOne(r, k, id, p)
  \/ \E k \in Parents, id \in GetIds, what \in Subs, p \in PopulateStrs : NatGetSub(r, k, id, what, p)
  \/ NatGetSubFind(r)
  \/ NatPostTeachers(r, FullTeacher("b"))
  \/ NatPostCourses(r, FullCourse(1))
  \/ NatPostCoursesCreate(r)
  \/ NatPostStudents(r, FullStudent(9))
  \/ \E b \in ReadTests : NatPostTests(r, b)
  \/ NatPostTestsStudentExists(r)
  \/ NatPostTestsCourseExists(r)
  \/ NatPostTestsCreate(r)
  \/ \E id \in GetIds : NatDeleteTests(r, id)
  \/ \E b \in TeacherBodies : NatPutTeachers(r, Junk, b)
  \/ \E b \in CourseBodies : NatPutCourses(r, Junk, b)
  \/ \E b \in StudentBodies : NatPutStudents(r, Junk, b)
  \/ \E b \in TestBodies : NatPutTests(r, Junk, b)
  \/ NatDeleteTeachers(r, Junk)
  \/ NatDeleteCourses(r, Junk)
  \/ NatDeleteStudents(r, Junk)
NextRead == MemRead \/ (\E r \in Slots : CtrRead(r)) \/ (\E r \in Slots : NatRead(r)) \/ Sent

SpecRead == InitRead /\ [][NextRead]_vars

\* The database-backed variants, one request at a time: every create, update
\* and delete route, in a store that holds one record of every kind
InitSeq == Created(Kinds) /\ variant # "memory"
SeqCourses == {FullCourse(t) : t \in RefIds} \cup {[teacherId |-> t] : t \in RefIds}
SeqTests == {FullTest(s, c, 8) : s \in RefIds, c \in RefIds}
            \cup {[studentId |-> s, courseId |-> c] : s \in RefIds, c \in RefIds}
            \cup {[studentId |-> s] : s \in RefIds} \cup {[courseId |-> c] : c \in RefIds}
CtrSeq(r) ==
  \/ CtrPostTeachers(r, FullTeacher("a"))
  \/ CtrPostTeachersCreate(r)
  \/ \E id \in PathIds : CtrPutTeachers(r, id, FullTeacher("a"))
  \/ CtrPutTeachersSave(r)
  \/ \E id \in PathIds : CtrDeleteTeachers(r, id)
  \/ CtrDeleteTeachersDelete(r)
  \/ \E b \in SeqCourses : CtrPostCourses(r, b)
  \/ CtrPostCoursesGetNextId(r)
  \/ CtrPostCoursesCreate(r)
  \/ \E id \in PathIds, b \in SeqCourses : CtrPutCourses(r, id, b)
  \/ CtrPutCoursesTeacher(r)
  \/ CtrPutCoursesSave(r)
  \/ \E id \in PathIds : CtrDeleteCourses(r, id)
  \/ CtrDeleteCoursesDelete(r)
  \/ CtrPostStudents(r, FullStudent(9))
  \/ CtrPostStudentsCreate(r)
  \/ \E id \in PathIds : CtrPutStudents(r, id, FullStudent(9))
  \/ CtrPutStudentsSave(r)
  \/ \E id \in PathIds : CtrDeleteStudents(r, id)
  \/ CtrDeleteStudentsDelete(r)
  \/ \E b \in SeqTests : CtrPostTests(r, b)
  \/ CtrPostTestsCourse(r)
  \/ CtrPostTestsGetNextId(r)
  \/ CtrPostTestsCreate(r)
  \/ \E id \in PathIds, b \in SeqTests : CtrPutTests(r, id, b)
  \/ CtrPutTestsStudent(r)
  \/ CtrPutTestsCourse(r)
  \/ CtrPutTestsSave(r)
  \/ \E id \in PathIds : CtrDeleteTests(r, id)
NatSeq(r) ==
  \/ NatPostTeachers(r, FullTeacher("a"))
  \/ \E id \in PathIds : NatPutTeachers(r, id, FullTeacher("a"))
  \/ NatPutTeachersSave(r)
  \/ \E id \in PathIds : NatDeleteTeachers(r, id)
  \/ NatDeleteTeachersDelete(r)
  \/ \E b \in SeqCourses : NatPostCourses(r, b)
  \/ NatPostCoursesCreate(r)
  \/ \E id \in PathIds, b \in SeqCourses : NatPutCourses(r, id, b)
  \/ NatPutCoursesTeacher(r)
  \/ NatPutCoursesSave(r)
  \/ \E id \in PathIds : NatDeleteCourses(r, id)
  \/ NatDeleteCoursesDelete(r)
  \/ NatPostStudents(r, FullStudent(9))
  \/ \E id \in PathIds : NatPutStudents(r, id, FullStudent(9))
  \/ NatPutStudentsSave(r)
  \/ \E id \in PathIds : NatDeleteStudents(r, id)
  \/ NatDeleteStudentsDelete(r)
  \/ \E b \in SeqTests : NatPostTests(r, b)
  \/ NatPostTestsStudentExists(r)
  \/ NatPostTestsCourseExists(r)
  \/ NatPostTestsCreate(r)
  \/ \E id \in PathIds, b \in SeqTests : NatPutTests(r, id, b)
  \/ NatPutTestsStudent(r)
  \/ NatPutTestsCourse(r)
  \/ NatPutTestsSave(r)
  \/ \E id \in PathIds : NatDeleteTests(r, id)
NextSeq == (\E r \in Slots : CtrSeq(r)) \/ (\E r \in Slots : NatSeq(r)) \/ Sent

SpecSeq == InitSeq /\ [][NextSeq]_vars

\* The POST handlers of the three variants, in a store that holds a teacher,
\* a course and a student
InitPost == Created({"teachers", "courses", "students"})
MemPost ==
  \/ \E b \in TeacherBodies : MemPostTeachers(b)
  \/ \E b \in CourseBodies : MemPostCourses(b)
  \/ \E b \in StudentBodies : MemPostStudents(b)
  \/ \E b \in TestBodies : MemPostTests(b)
CtrPost(r) ==
  \/ \E b \in TeacherBodies : CtrPostTeachers(r, b)
  \/ CtrPostTeachersCreate(r)
  \/ \E b \in CourseBodies : CtrPostCourses(r, b)
  \/ CtrPostCoursesGetNextId(r)
  \/ CtrPostCoursesCreate(r)
  \/ \E b \in StudentBodies : CtrPostStudents(r, b)
  \/ CtrPostStudentsCreate(r)
  \/ \E b \in TestBodies : CtrPostTests(r, b)
  \/ CtrPostTestsCourse(r)
  \/ CtrPostTestsGetNextId(r)
  \/ CtrPostTestsCreate(r)
NatPost(r) ==
  \/ \E b \in TeacherBodies : NatPostTeachers(r, b)
  \/ \E b \in CourseBodies : NatPostCourses(r, b)
  \/ NatPostCoursesCreate(r)
  \/ \E b \in StudentBodies : NatPostStudents(r, b)
  \/ \E b \in TestBodies : NatPostTests(r, b)
  \/ NatPostTestsStudentExists(r)
  \/ NatPostTestsCourseExists(r)
  \/ NatPostTestsCreate(r)
NextPost == MemPost \/ (\E r \in Slots : CtrPost(r)) \/ (\E r \in Slots : NatPost(r)) \/ Sent

SpecPost == InitPost /\ [][NextPost]_vars

----------------------------------------------------------------------------
\* Properties

\* entity id of kind k is stored
Exists(k, id) == Some(db[k], "id", id)
\* a dependent references entity id of kind k
Referenced(k, id) ==
  \/ k = "teachers" /\ Some(db.courses, "teacherId", id)
  \/ k = "courses" /\ Some(db.tests, "courseId", id)
  \/ k = "students" /\ Some(db.tests, "studentId", id)
\* the step answers 400 and writes nothing
Refused == res'.status = 400 /\ UNCHANGED <<db, files, nextId, counters, oids>>
\* the step with which a DELETE /k/:id handler looks for dependents
DeleteChecks(k, id) ==
  \/ k = "teachers" /\ (MemDeleteTeachers(id) \/ \E r \in AllSlots : CtrDeleteTeachers(r, id) \/ NatDeleteTeachers(r, id))
  \/ k = "courses" /\ (MemDeleteCourses(id) \/ \E r \in AllSlots : CtrDeleteCourses(r, id) \/ NatDeleteCourses(r, id))
  \/ k = "students" /\ (MemDeleteStudents(id) \/ \E r \in AllSlots : CtrDeleteStudents(r, id) \/ NatDeleteStudents(r, id))

\* C1: in every variant, a DELETE of an existing teacher, course or student
\* that a dependent references is answered 400 and leaves every collection
\* as it was.
C1_ReferencedDeleteRefused ==
  [][\A k \in {"teachers", "courses", "students"}, id \in PathIds :
       DeleteChecks(k, id) /\ Exists(k, id) /\ Referenced(k, id) => Refused]_vars

\* the step that removes teacher id
TeacherRemoval(id) ==
  \/ MemDeleteTeachers(id)
  \/ \E r \in AllSlots : inflight[r].h = "CtrDeleteTeachersDelete" /\ inflight[r].id = id /\ CtrDeleteTeachersDelete(r)
  \/ \E r \in AllSlots : inflight[r].h = "NatDeleteTeachersDelete" /\ inflight[r].id = id /\ NatDeleteTeachersDelete(r)

\* C6: DELETE /teachers/:id of a teacher some course references is answered
\* 400 and removes nothing; once no course references the teacher, the same
\* DELETE goes on to remove the teacher and answers 200.
C6_DeleteTeacherAfterCourses ==
  [][\A id \in PathIds :
       /\ DeleteChecks("teachers", id) /\ Exists("teachers", id) /\ Referenced("teachers", id)
            => res'.status = 400 /\ db' = db
       /\ DeleteChecks("teachers", id) /\ Exists("teachers", id) /\ ~Referenced("teachers", id)
            => res'.status \in {0, 200}
       /\ TeacherRemoval(id) /\ Exists("teachers", id) /\ ~Referenced("teachers", id)
            => res'.status = 200 /\ ~Some(db'.teachers, "id", id)]_vars

\* C3: an identifier once given to an entity of a kind is never given to an
\* entity of that kind created later, over creates, deletes and restarts.
C3_IdentifierNeverReused ==
  [][\A k \in Kinds :
       Len(db'[k]) = Len(db[k]) + 1 => db'[k][Len(db'[k])].id \notin issued[k]]_vars

NamesTeacherId == {"teacherId is invalid!", "Invalid teacherId", "teacherId does not exist"}
\* body b supplies every field POST /courses requires other than teacherId
OtherCourseFields(b) == \A f \in CourseRequired \ {"teacherId"} : ~Falsy(b, f)
\* the step in which POST /courses with body b looks the teacher up
PostCoursesChecks(b) ==
  MemPostCourses(b) \/ \E r \in AllSlots : CtrPostCourses(r, b) \/ NatPostCourses(r, b)
\* the step in which PUT /courses/:id with a teacherId looks the teacher up
PutCoursesChecks(t) ==
  \/ \E id \in PathIds, b \in CourseBodies :
       Has(b, "teacherId") /\ Number(b.teacherId) = t /\ Exists("courses", id) /\ MemPutCourses(id, b)
  \/ \E r \in AllSlots :
       /\ inflight[r].h = "CtrPutCoursesTeacher" /\ inflight[r].upd.teacherId = t
       /\ CtrPutCoursesTeacher(r)
  \/ \E r \in AllSlots :
       /\ inflight[r].h = "NatPutCoursesTeacher" /\ inflight[r].upd.teacherId = t
       /\ NatPutCoursesTeacher(r)
  \/ \E r \in AllSlots, id \in PathIds, b \in CourseBodies :
       /\ Has(b, "teacherId") /\ b.teacherId = t /\ ~IsValidObjectId(t) /\ Exists("courses", id)
       /\ NatPutCourses(r, id, b)

\* C7: on create and on update of a course, a supplied teacherId that does
\* not identify a stored teacher is answered 400 with an error that names
\* teacherId, and no course is created or modified.
C7_UnknownTeacherIdNamed ==
  [][/\ \A b \in CourseBodies :
          /\ PostCoursesChecks(b) /\ OtherCourseFields(b) /\ Has(b, "teacherId")
          /\ ~Exists("teachers", Number(b.teacherId))
          => Refused /\ res'.error \in NamesTeacherId
     /\ \A t \in RefIds \cup {NaN} :
          PutCoursesChecks(t) /\ ~Exists("teachers", t)
          => Refused /\ res'.error \in NamesTeacherId]_vars

\* C2: a create or update request that is answered 400 has written nothing:
\* the step that answers 400 leaves every stored record as it was, and a
\* step of a create or update handler that changes a record answers 200/201.
C2_RejectedRequestWritesNothing ==
  [][route'.method \in {"POST", "PUT"} =>
       /\ res'.status = 400 => db' = db /\ files' = files
       /\ db' # db => res'.status \in {200, 201}]_vars

\* what a POST /tests handler of the running variant compares identifiers with
TestRef(v) == IF variant = "native" THEN v ELSE Number(v)
NoStudent(b) == ~Has(b, "studentId") \/ ~Exists("students", TestRef(b.studentId))
NoCourse(b) == ~Has(b, "courseId") \/ ~Exists("courses", TestRef(b.courseId))
\* native POST /tests, waiting for its lookups: the answer to lookup f that
\* the handler has, or is about to get from the store
Answer(r, f) ==
  IF f \in DOMAIN inflight[r].got THEN inflight[r].got[f]
  ELSE IF f = "studentExists" THEN Exists("students", inflight[r].b.studentId)
  ELSE Exists("courses", inflight[r].b.courseId)

\* the step leaves the handler of slot r waiting for step h, nothing written
Waits(r, h) == inflight'[r].h = h /\ UNCHANGED <<db, files, nextId, counters, oids>>

NamesStudentId == {"studentId is invalid!", "Invalid studentId", "studentId does not exist"}
\* body b supplies a non-empty studentId and a non-empty courseId and
\* neither identifies a stored record
BothUnknown(b) ==
  /\ ~Falsy(b, "studentId") /\ ~Falsy(b, "courseId")
  /\ NoStudent(b) /\ NoCourse(b)
\* body b supplies every field POST /tests requires other than the two references
OtherTestFields(b) == (\A f \in {"testName", "date"} : ~Falsy(b, f)) /\ \A f \in TestMarks : Has(b, f)

\* C9: on create or update of a test whose studentId and courseId are both
\* supplied and both identify nothing, the error answered is the studentId
\* one, whatever the order in which the lookups answer.
C9_StudentIdReportedFirst ==
  [][/\ \A b \in TestBodies :
          /\ MemPostTests(b) \/ \E r \in AllSlots : CtrPostTests(r, b) \/ NatPostTests(r, b)
          /\ OtherTestFields(b) /\ BothUnknown(b) /\ res'.status # 0
          => res'.status = 400 /\ res'.error \in NamesStudentId
     /\ \A b \in TestBodies, id \in PathIds :
          /\ MemPutTests(id, b) \/ \E r \in AllSlots : NatPutTests(r, id, b)
          /\ Exists("tests", id) /\ BothUnknown(b) /\ res'.status # 0
          => res'.status = 400 /\ res'.error \in NamesStudentId
     /\ \A r \in AllSlots :
          /\ \/ inflight[r].h = "CtrPutTestsStudent" /\ CtrPutTestsStudent(r)
             \/ inflight[r].h = "NatPutTestsStudent" /\ NatPutTestsStudent(r)
          /\ Has(inflight[r].upd, "courseId")
          /\ ~Exists("students", inflight[r].upd.studentId)
          /\ ~Exists("courses", inflight[r].upd.courseId)
          => res'.status = 400 /\ res'.error \in NamesStudentId
     /\ \A r \in AllSlots :
          /\ inflight[r].h = "NatPostTestsExists"
          /\ NatPostTestsStudentExists(r) \/ NatPostTestsCourseExists(r)
          /\ ~Answer(r, "studentExists") /\ ~Answer(r, "courseExists") /\ inflight'[r] = Idle
          => res'.status = 400 /\ res'.error \in NamesStudentId]_vars

\* body b supplies none of the fields fs
NoneOf(b, fs) == DOMAIN b \cap fs = {}
NoFields == Refused /\ res'.error = "No fields provided to update"

AllIdle == \A r \in AllSlots : inflight[r] = Idle

\* C4: counter variant, concurrent creations: once every request has ended,
\* the stored entities of a kind carry distinct identifiers and these are
\* exactly 1..seq of the kind's counter (no counter value was consumed
\* without an entity stored under it).
C4_DistinctAndGapFree ==
  AllIdle => \A k \in {"teachers", "students"} :
               /\ Cardinality(Ids(db[k])) = Len(db[k])
               /\ Ids(db[k]) = 1..counters[k]

\* some course's teacherId identifies no stored teacher
Dangling == \E i \in 1..Len(db.courses) : ~Exists("teachers", db.courses[i].teacherId)

\* C5: a course whose teacherId identifies no stored teacher comes about only
\* when requests have overlapped (the lookup of one fell between the lookup
\* and the write of the other); and it does come about: see C5_Witness.
C5_DanglingOnlyByOverlap == Dangling => overlapped

\* DELETE /teachers/:id and POST /courses have both succeeded, the POST
\* answering last, and the stored course references the deleted teacher
C5_Witness ==
  /\ Dangling /\ AllIdle
  /\ route = [method |-> "POST", kind |-> "courses"]
  /\ res.status = 201

FieldsOf(k) ==
  CASE k = "teachers" -> TeacherFields
    [] k = "courses" -> CourseFields
    [] k = "students" -> StudentFields
    [] OTHER -> TestFields
BodiesOf(k) ==
  CASE k = "teachers" -> TeacherBodies
    [] k = "courses" -> CourseBodies
    [] k = "students" -> StudentBodies
    [] OTHER -> TestBodies
\* the first step of PUT /k/:id with body b
PutStep(k, id, b) ==
  \/ k = "teachers" /\ (MemPutTeachers(id, b) \/ \E r \in AllSlots : CtrPutTeachers(r, id, b) \/ NatPutTeachers(r, id, b))
  \/ k = "courses" /\ (MemPutCourses(id, b) \/ \E r \in AllSlots : CtrPutCourses(r, id, b) \/ NatPutCourses(r, id, b))
  \/ k = "students" /\ (MemPutStudents(id, b) \/ \E r \in AllSlots : CtrPutStudents(r, id, b) \/ NatPutStudents(r, id, b))
  \/ k = "tests" /\ (MemPutTests(id, b) \/ \E r \in AllSlots : CtrPutTests(r, id, b) \/ NatPutTests(r, id, b))
\* u supplies at least one of the fields fs, each with a non-empty string or
\* a number, and each reference it supplies identifies a stored entity
Sound(u, fs) ==
  /\ DOMAIN u \cap fs # {}
  /\ \A f \in DOMAIN u \cap fs : ~Falsy(u, f) /\ (f \in NumFields => u[f] \notin {Junk, NaN})
  /\ Has(u, "teacherId") => Exists("teachers", u.teacherId)
  /\ Has(u, "studentId") => Exists("students", u.studentId)
  /\ Has(u, "courseId") => Exists("courses", u.courseId)
\* the step answers 200 and has assigned the fields of u to entity id of kind
\* k, every other field and every other record as before
Written(k, id, u) ==
  LET i == FindIndex(db[k], id) IN
  res'.status = 200 /\ db' = [db EXCEPT ![k][i] = Assign(@, u)]

\* C11: a PUT on a stored entity that supplies at least one updatable field
\* (non-empty values, references to stored entities) is applied: the stored
\* entity gets each supplied value, its other fields and all other records
\* stay as they were, and the answer is 200.  This includes a PUT that
\* supplies only Student.homeroom or only Course.schedule.
C11_UpdateAppliesSuppliedFields ==
  [][route'.method = "PUT" =>
       LET k == route'.kind IN
       /\ \A id \in PathIds, b \in BodiesOf(k) :
            PutStep(k, id, b) /\ Exists(k, id) /\ Sound(b, FieldsOf(k)) =>
              IF variant = "memory" THEN Written(k, id, Pick(b, FieldsOf(k)))
              ELSE \E r \in AllSlots :
                     /\ inflight'[r] # Idle /\ db' = db
                     /\ inflight'[r].upd = Pick(b, FieldsOf(k)) /\ inflight'[r].doc.id = id
       /\ \A r \in AllSlots :
            inflight[r] # Idle /\ Sound(inflight[r].upd, FieldsOf(k)) /\ Exists(k, inflight[r].doc.id) =>
              IF inflight'[r] # Idle THEN inflight'[r].upd = inflight[r].upd /\ db' = db
              ELSE Written(k, inflight[r].doc.id, inflight[r].upd)]_vars

\* the one step of GET /k/:id without a populate parameter
GetOneStep(k, id) ==
  \/ k = "teachers" /\ MemGetTeachersId(id)
  \/ k # "teachers" /\ MemGetOne(k, id)
  \/ \E r \in AllSlots : CtrGetOne(r, k, id) \/ NatGetOne(r, k, id, <<>>)

\* C12: for every kind, the record a successful create returns is the record
\* it has stored, and a GET by the identifier of a stored record answers 200
\* with that record as stored: with no write in between, the record fetched
\* equals the record the create returned.
C12_FetchEqualsCreated ==
  [][/\ route'.method = "POST" /\ res'.status = 201 =>
          LET k == route'.kind IN
          /\ Len(db'[k]) = Len(db[k]) + 1
          /\ res'.body = db'[k][Len(db'[k])]
     /\ route'.method = "GET" =>
          \A k \in Kinds, id \in PathIds :
            GetOneStep(k, id) /\ Exists(k, id) =>
              res'.status = 200 /\ res'.body = db[k][FindIndex(db[k], id)] /\ db' = db]_vars

\* the records of a sequence
Range(arr) == {arr[i] : i \in 1..Len(arr)}

\* C13: no GET /teachers and no GET /teachers/:id is left without a
\* response: the handler of GET /teachers ends having sent 200 with all the
\* stored teachers, the handler of GET /teachers/:id ends having sent 200
\* with the teacher when it is stored and 404 when it is not.
C13_TeacherReadsAnswered ==
  [][route'.method = "GET" =>
       /\ route'.kind = "teachers" =>
            /\ res'.status = 200
            /\ Len(res'.body) = Len(db.teachers) /\ Range(res'.body) = Range(db.teachers)
       /\ \A id \in PathIds :
            GetOneStep("teachers", id) =>
              IF Exists("teachers", id)
              THEN res'.status = 200 /\ res'.body = db.teachers[FindIndex(db.teachers, id)]
              ELSE res'.status = 404]_vars

\* the step of an average route that reads the tests of entity id of kind k
\* and aggregates them
AverageStep(k, id) ==
  \/ k = "courses" /\ MemGetCoursesAverage(id)
  \/ \E r \in AllSlots :
       /\ inflight[r].h \in {"CtrGetSubFind", "NatGetSubFind"}
       /\ inflight[r].k = k /\ inflight[r].id = id /\ inflight[r].what = "average"
       /\ CtrGetSubFind(r) \/ NatGetSubFind(r)
\* the tests that refer to entity id of kind k
TestsOf(k, id) == Filter(db.tests, TestKey(k), id)

\* C14: the average of a stored student or course that no test refers to is
\* answered 200 with testCount 0 and average null, the null being what the
\* handler computes (no 0/0, no NaN left to the JSON encoding).
C14_NoTestsNullAverage ==
  [][route'.method = "GET" =>
       \A k \in Parents, id \in PathIds :
         AverageStep(k, id) /\ Exists(k, id) /\ Len(TestsOf(k, id)) = 0 =>
           /\ res'.status = 200
           /\ res'.body.testCount = 0
           /\ res'.body.average = Null]_vars

\* the product of the outOf of tests, and the sum of 100 * mark / outOf over
\* tests in units of 1 / scale (scale a multiple of every outOf)
RECURSIVE OutOfs(_)
OutOfs(tests) == IF tests = <<>> THEN 1 ELSE Head(tests).outOf * OutOfs(Tail(tests))
RECURSIVE Percents(_, _)
Percents(tests, scale) ==
  IF tests = <<>> THEN 0
  ELSE (100 * Head(tests).mark * scale) \div Head(tests).outOf + Percents(Tail(tests), scale)

\* C15: the average of a stored student or course that tests refer to (each
\* with outOf other than 0) is answered 200 with testCount the number of
\* those tests and average the sum of their 100 * mark / outOf divided by
\* their number; the weights do not enter.
C15_UnweightedMean ==
  [][route'.method = "GET" =>
       \A k \in Parents, id \in PathIds :
         LET tests == TestsOf(k, id) IN
         /\ AverageStep(k, id) /\ Exists(k, id) /\ Len(tests) > 0
         /\ \A i \in 1..Len(tests) : tests[i].outOf > 0 /\ tests[i].mark >= 0
         => /\ res'.status = 200
            /\ res'.body.testCount = Len(tests)
            /\ res'.body.average.num * Len(tests) * OutOfs(tests)
                 = res'.body.average.den * Percents(tests, OutOfs(tests))
            /\ res'.body.average.den > 0]_vars

\* the marks 8 and 10 out of 10, with weights 1 and 3, have averaged to 90
C15_Witness ==
  /\ route.method = "GET" /\ route.kind = "courses/:id/average"
  /\ res.status = 200
  /\ res.body.testCount = 2
  /\ res.body.average = [num |-> 90, den |-> 1]
  /\ \E i, j \in 1..Len(db.tests) :
       /\ db.tests[i].mark = 8 /\ db.tests[i].weight = 1
       /\ db.tests[j].mark = 10 /\ db.tests[j].weight = 3

\* the first step of a native-key route whose path is /k/:id or goes on
\* from it, for the identifier id
IdStep(k, id) ==
  \/ \E r \in AllSlots, p \in PopulateStrs : NatGetOne(r, k, id, p)
  \/ k \in Parents /\ \E r \in AllSlots, what \in Subs, p \in PopulateStrs : NatGetSub(r, k, id, what, p)
  \/ \E b \in BodiesOf(k) : PutStep(k, id, b)
  \/ DeleteChecks(k, id)
  \/ k = "tests" /\ \E r \in AllSlots : NatDeleteTests(r, id)

\* C16: native-key variant: every route with an identifier in its path
\* answers a malformed identifier at once with 400 "Invalid ... _id": nothing
\* is written and the handler does not go on to a store operation.  For a
\* well-formed identifier that matches no record it never gives that answer.
C16_MalformedIdRefusedFirst ==
  [][variant = "native" =>
       \A k \in Kinds :
         /\ IdStep(k, Junk) =>
              /\ res'.status = 400 /\ res'.error = InvalidId(k)
              /\ UNCHANGED <<db, oids, inflight>>
         /\ \A id \in PathIds :
              IdStep(k, id) /\ ~Exists(k, id) => res'.error # InvalidId(k)]_vars

\* PUT /tests/:id with a malformed identifier has been refused, tests stored
C16_Witness ==
  /\ variant = "native"
  /\ route = [method |-> "PUT", kind |-> "tests"]
  /\ res = [status |-> 400, error |-> "Invalid test _id"]
  /\ Len(db.tests) > 0

\* the handler of slot r waits for a Model.create or a doc.save() that the
\* store layer will reject (the document does not pass validation)
StoreWillReject(r) ==
  /\ inflight[r] # Idle /\ "doc" \in DOMAIN inflight[r]
  /\ IF "upd" \in DOMAIN inflight[r] THEN ~SchemaValid(Assign(inflight[r].doc, inflight[r].upd))
     ELSE ~SchemaValid(inflight[r].doc)

\* C17: database-backed variants: when the store operation a handler awaits
\* fails, the handler ends having sent 500 with an error message; the
\* request is not left without a response.
C17_StoreFailureAnswered500 ==
  [][variant # "memory" =>
       \A r \in AllSlots :
         StoreWillReject(r) /\ inflight'[r] = Idle => res'.status = 500 /\ res'.error # ""]_vars

\* the first step of GET /k/:id/what
SubStep(k, id, what) ==
  \/ k = "courses" /\ what = "average" /\ MemGetCoursesAverage(id)
  \/ \E r \in AllSlots : CtrGetSub(r, k, id, what)
  \/ \E r \in AllSlots, p \in PopulateStrs : NatGetSub(r, k, id, what, p)
SubFinds == {"CtrGetSubFind", "NatGetSubFind"}

\* C18: a tests-of or average route whose path names (with a well-formed
\* identifier) a student or course that is not stored answers 404 with an
\* error in its first step, and the handler ends there: the step that reads
\* the tests is only ever awaited for a student or course found stored.
C18_UnknownParentNotFound ==
  [][route'.method = "GET" =>
       /\ \A k \in Parents, id \in PathIds, what \in Subs :
            SubStep(k, id, what) /\ ~Exists(k, id) =>
              /\ res'.status = 404 /\ res'.error # ""
              /\ UNCHANGED <<db, inflight>>
       /\ \A r \in AllSlots :
            inflight[r] = Idle /\ inflight'[r].h \in SubFinds =>
              Exists(inflight'[r].k, inflight'[r].id)]_vars

\* the counter variant has answered 404 to the average of a student that is
\* not stored, with tests stored
C18_Witness ==
  /\ variant = "counter"
  /\ route = [method |-> "GET", kind |-> "students/:id/average"]
  /\ res = [status |-> 404, error |-> "Student not found"]
  /\ Len(db.tests) > 0

\* the one step of DELETE /tests/:id
DeleteTestStep(id) ==
  MemDeleteTests(id) \/ \E r \in AllSlots : CtrDeleteTests(r, id) \/ NatDeleteTests(r, id)

\* C19: DELETE /tests/:id of a stored test answers 200 with the test as it
\* was stored, whatever else is stored; the test is then gone and every
\* other record is as before; a GET or a DELETE of a test that is not stored
\* answers 404.
C19_TestDeleteUnconditional ==
  [][route'.method \in {"GET", "DELETE"} =>
       \A id \in PathIds :
         /\ DeleteTestStep(id) /\ Exists("tests", id) =>
              LET test == db.tests[FindIndex(db.tests, id)] IN
              /\ res'.status = 200 /\ res'.body = test
              /\ Len(db'.tests) = Len(db.tests) - 1
              /\ Range(db'.tests) = Range(db.tests) \ {test}
              /\ ~Some(db'.tests, "id", id)
              /\ \A k \in Kinds \ {"tests"} : db'[k] = db[k]
         /\ (DeleteTestStep(id) \/ GetOneStep("tests", id)) /\ ~Exists("tests", id) =>
              res'.status = 404 /\ db' = db]_vars

\* test 1, whose student and course are stored, has been deleted and handed
\* back, another test remaining
C19_Witness ==
  /\ route = [method |-> "DELETE", kind |-> "tests"]
  /\ res.status = 200 /\ res.body.id = 1
  /\ ~Exists("tests", 1) /\ Len(db.tests) > 0
  /\ Exists("students", res.body.studentId) /\ Exists("courses", res.body.courseId)

Tokens == {"teacher", "student", "course"}
\* token is one of the comma-separated pieces of the populate parameter p
Present(token, p) == \E i \in 1..Len(p) : p[i] \in {token, " " \o token}
\* the foreign keys of kind k whose token the populate parameter p holds
Wanted(k, p) == {t \o "Id" : t \in {u \in Tokens : Present(u, p) /\ u \o "Id" \in FieldsOf(k)}}
\* the routes that answer with one course or test, and with a list of them
OneDoc == {"courses/:id", "tests/:id"}
ManyDocs == {"courses", "tests", "students/:id/tests", "courses/:id/tests"}
\* the stored record a returned document doc shows
StoredOf(doc) ==
  LET k == IF "teacherId" \in DOMAIN doc THEN "courses" ELSE "tests" IN
  db[k][FindIndex(db[k], doc.id)]
\* v is a projection of the stored entity of kind k that id identifies
Embeds(v, k, id) ==
  /\ Exists(k, id)
  /\ DOMAIN v # {"id"} /\ v.id = id
  /\ \A g \in DOMAIN v : v[g] = db[k][FindIndex(db[k], id)][g]

\* C20: native-key variant: a GET route that returns courses or tests
\* replaces a foreign key by a projection of the entity it refers to exactly
\* when the key's token (teacher, student, course) is among the pieces of
\* the populate parameter; every other foreign key, and every foreign key
\* when there is no populate parameter, is returned as the bare identifier.
C20_PopulateIffToken ==
  [][variant = "native" /\ route'.method = "GET" =>
       /\ \A p \in PopulateStrs, r \in AllSlots :
            /\ \A k \in {"courses", "tests"} :
                 NatGetAll(r, k, p) \/ (\E id \in PathIds : NatGetOne(r, k, id, p))
                 => route'.populated = Wanted(k, p)
            /\ \A k \in Parents, id \in PathIds :
                 NatGetSub(r, k, id, "tests", p) => route'.populated = Wanted("tests", p)
       /\ res'.status = 200 /\ route'.kind \in OneDoc \cup ManyDocs =>
            LET docs == IF route'.kind \in OneDoc THEN <<res'.body>> ELSE res'.body IN
            \A i \in 1..Len(docs), t \in Tokens :
              LET f == t \o "Id" IN
              f \in DOMAIN docs[i] =>
                IF f \in route'.populated THEN Embeds(docs[i][f], t \o "s", StoredOf(docs[i])[f])
                ELSE docs[i][f] = StoredOf(docs[i])[f]]_vars


\* a step that answers the list route of kind k
ListStep(k) ==
  \/ IF k = "teachers" THEN MemGetTeachers ELSE MemGetAll(k)
  \/ \E r \in AllSlots : CtrGetAll(r, k)
  \/ \E r \in AllSlots, p \in PopulateStrs : NatGetAll(r, k, p)
\* x comes before y by the sort key of the variant's list of kind k
KeyBefore(k, x, y) ==
  IF variant # "native" THEN x.id < y.id
  ELSE IF k \in {"teachers", "students"} THEN ByName(x, y)
  ELSE IF k = "courses" THEN ByCode(x, y)
  ELSE ByCreatedAt(x, y)

\* C21: for every kind, the list route answers 200 with all the stored
\* entities of the kind and no others, none after one the variant's sort key
\* puts behind it (identifier ascending in the counter and in-memory
\* variants); the sort key orders every two of them, so that the sequence is
\* determined by the stored data and a second call without a write in
\* between returns the same sequence.
C21_ListCompleteOrderedStable ==
  [][\A k \in Kinds :
       ListStep(k) =>
         LET body == res'.body
             asStored == variant # "native" \/ route'.populated = {} IN
         /\ res'.status = 200
         /\ Len(body) = Len(db[k])
         /\ \A x \in Range(db[k]) : \E i \in 1..Len(body) :
              body[i].id = x.id /\ (asStored => body[i] = x)
         /\ \A i, j \in 1..Len(body) : i < j => ~KeyBefore(k, body[j], body[i])
         /\ \A i, j \in 1..Len(body) : i < j => KeyBefore(k, body[i], body[j])]_vars


\* the references of the stored courses and tests that identify nothing
DanglingRefs ==
  {<<"courses", c.id, "teacherId">> : c \in {c \in Range(db.courses) : ~Exists("teachers", c.teacherId)}}
  \cup {<<"tests", t.id, "studentId">> : t \in {t \in Range(db.tests) : ~Exists("students", t.studentId)}}
  \cup {<<"tests", t.id, "courseId">> : t \in {t \in Range(db.tests) : ~Exists("courses", t.courseId)}}

\* C22: database-backed variants: as long as no two requests have been in
\* flight at the same time, every stored course's teacherId identifies a
\* stored teacher and every stored test's studentId and courseId identify a
\* stored student and a stored course, whatever create, update and delete
\* requests have run since a store without dangling references.
C22_SequentialNoDangling == variant # "memory" /\ ~overlapped => DanglingRefs = {}


\* Requests have run one at a time and moved the references: teacher 1 and
\* student 1 are deleted, a course names teacher 2 and a test student 2
C22_Witness ==
  /\ variant # "memory" /\ ~overlapped
  /\ ~Exists("teachers", 1) /\ ~Exists("students", 1)
  /\ \E c \in Range(db.courses) : c.teacherId = 2 /\ Exists("teachers", 2)
  /\ \E t \in Range(db.tests) : t.studentId = 2 /\ Exists("students", 2)
  /\ route.method = "DELETE" /\ res.status = 200


\* the identifier the allocator of kind k gives to the next create
NextIdOf(k) ==
  CASE variant = "memory" -> nextId[k]
    [] variant = "counter" -> counters[k] + 1
    [] OTHER -> oids[k] + 1
\* this step answers a POST of kind k with status
PostAnswered(k, status) ==
  /\ res = NoRes /\ res'.status = status
  /\ route'.method = "POST" /\ route'.kind = k

\* C23: a step that answers a POST with 400 leaves the identifier the
\* allocator of the kind gives next as it was, and the request it ends had
\* drawn no identifier on the way; a successful create, requests running one
\* at a time, answers with the identifier the allocator stood at.  So the
\* create that follows a rejected one gets the identifier it would have got
\* without it.
C23_RejectedCreateKeepsAllocator ==
  [][\A k \in Kinds :
       /\ PostAnswered(k, 400) =>
            /\ NextIdOf(k)' = NextIdOf(k)
            /\ \A r \in AllSlots :
                 inflight[r] # Idle /\ inflight'[r] = Idle => "doc" \notin DOMAIN inflight[r]
       /\ PostAnswered(k, 201) /\ ~overlapped' =>
            res'.body.id = NextIdOf(k)' - 1]_vars

\* POST /tests is refused for its reference after one test was created: the
\* allocator still gives the identifier that follows the created test's
C23_Witness ==
  /\ route = [method |-> "POST", kind |-> "tests"]
  /\ res.status = 400 /\ res.error # "Missing required fields"
  /\ Len(db.tests) = 1 /\ db.tests[1].id = 1
  /\ NextIdOf("tests") = 2


\* C24: in-memory variant: whenever a request has completed, answered with
\* success or refused, each persisted JSON file holds exactly the records of
\* the collection in memory, so that a restart, which reloads the files,
\* serves the state the running process was serving.
C24_FilesEqualMemory == variant = "memory" => \A k \in Kinds : files[k] = db[k]

=============================================================================
